---- MODULE Spec2Model ----
(***************************************************************************)
(* Payment and fulfilment core of the ordering bot: ephemeral Solana       *)
(* wallets, the deposit scanner, purchase finalization, the balance        *)
(* ledger and the reservation counters.                                    *)
(*                                                                         *)
(* Units: EUR amounts are in cents, on-chain balances in lamports          *)
(* (10^9 per SOL), expected amounts in 10^-5 SOL (the five decimals of the *)
(* invoice), quotes in whole EUR per SOL, time in ticks of TickMinutes.    *)
(***************************************************************************)
EXTENDS Integers, Sequences, FiniteSets, TLC

\* ------------------------------------------------------------------ bounds
MaxTicks == 2
TickMinutes == 15
MaxTransfers == 1
InitStock == 3
\* lamports of a stray transfer too small to be worth a cent
DustLamports == 1000
\* lamports of a generous overpayment
BigSurplusLamports == 25000000
\* value of the percentage coupon
CouponPercent == 10
\* edits the admin makes to reseller settings
MaxResellerEdits == 1
\* recoveries the operator starts
MaxRecoverCalls == 2
\* credits applied to the ledger in one run
MaxCredits == 2
\* discount rules the admin stores in one run
MaxRuleEdits == 3

\* ------------------------------------------------------- program constants
PAYMENT_TIMEOUT_MIN == 20
TOLERANCE_PER_10K == 9950
SURPLUS_MIN_LAMPORTS == 500000
SWEEP_FEE == 5000
LAMPORTS_PER_UNIT == 10000
MAX_RETRIES == 3

\* ---------------------------------------------------------- input domains
Users == {1}
Products == {1, 2}
\* order ids create_nowpayments_payment can hand out
OrderIds == {1}
Codes == {"SAVE"}
NoCode == "none"
\* get_sol_price_eur returning None
NoQuote == 0
Quotes == {200}
QuoteInputs == Quotes \cup {NoQuote}
RefillAmounts == {2000}
\* price in cents of one unit of each product
Price(p) == 1000
\* units of each product in stock before anything is reserved
InitStockOf(p) == IF p = 1 THEN InitStock ELSE 1
\* kinds of media attached to each product
Media(p) == IF p = 1 THEN {"group", "anim"} ELSE {}
\* baskets the user holds when the payment flow is entered
InitBaskets == {<<1>>, <<1, 1>>, <<2>>}

VARIABLES
    products,          \* products table: exists, available, reserved
    users,             \* users table: balance, total_purchases, basket
    user_data,         \* context.user_data: stored basket payment context
    discount_codes,    \* discount_codes table: uses_count, max_uses
    purchases,         \* purchases table, append only
    solana_wallets,    \* solana_wallets table, by order_id
    pending_deposits,  \* pending_deposits table, by payment_id
    chain,             \* lamports held on chain by each order's address
    transfers,         \* number of inflows each address has received
    treasury,          \* lamports received by ADMIN_WALLET
    audit,             \* log_admin_action entries
    now,               \* wall clock, in ticks of TickMinutes
    nextOrder,         \* next unused order id
    scanPc,            \* position of the running check_solana_deposits job
    scanQueue,         \* rows fetched by the running scan, still to visit
    sweepTasks,        \* sweep_wallet tasks created and not yet run
    retries,           \* per order: attempts made by retry_purchase_finalization
    settled,           \* per order: settlements that reported success
    commits,           \* per order: committed finalize transactions
    sold,              \* per product: stock decrements committed by finalize
    released,          \* per order: how its snapshot was un-reserved, if it was
    lateInflow,        \* per order: lamports that arrived after a cancellation
    last,              \* what the step just taken observed and did
    _price_cache,      \* memory cache of get_sol_price_eur: price, timestamp
    bot_settings,      \* the sol_price_eur_cache row: price, updated_at
    clock,             \* time.time(), in seconds
    recovery_funds,    \* lamports received by each recovery target
    recover_job,       \* the running recover_stuck_funds: wallets to visit
    retry_job,         \* the running retry_purchase_finalization: its arguments
    admin_inbox,       \* orders the primary admin has been alerted about
    reseller_discounts, \* reseller_discounts table: the rows, as inserted
    reseller_mgmt,     \* the admin's context.user_data of the discount dialog
    paid_seen,         \* orders whose wallet the scanner has classified as paid
    price_origin,      \* when the cached prices were fetched from upstream
    callbacks          \* select_basket_crypto callbacks in flight: their locals

vars == <<products, users, user_data, discount_codes, purchases, solana_wallets,
          pending_deposits, chain, transfers, treasury, audit, now, nextOrder,
          scanPc, scanQueue, sweepTasks, retries, settled, commits, sold,
          released, lateInflow, last, _price_cache, bot_settings, clock,
          recovery_funds, recover_job, retry_job, admin_inbox,
          reseller_discounts, reseller_mgmt, paid_seen,
                   price_origin, callbacks>>

\* the price oracle and the operator's recovery job
more == <<_price_cache, bot_settings, clock, recovery_funds, recover_job,
          retry_job, admin_inbox, reseller_discounts, reseller_mgmt, paid_seen,
                   price_origin, callbacks>>

\* the retry loop and what it sends, the reseller discount dialog
extra == <<retry_job, admin_inbox, reseller_discounts, reseller_mgmt,
           paid_seen,
                   price_origin, callbacks>>

\* ----------------------------------------------------------------- helpers
RECURSIVE SumPrices(_)
SumPrices(s) == IF s = <<>> THEN 0 ELSE Head(s).price + SumPrices(Tail(s))

RECURSIVE CountIn(_, _)
CountIn(s, x) ==
    IF s = <<>> THEN 0
    ELSE (IF Head(s) = x THEN 1 ELSE 0) + CountIn(Tail(s), x)

RECURSIVE SeqOfSet(_)
SeqOfSet(S) ==
    IF S = {} THEN <<>>
    ELSE LET m == CHOOSE x \in S : \A y \in S : x <= y
         IN  <<m>> \o SeqOfSet(S \ {m})

\* Decimal.quantize with the default context rounding, ROUND_HALF_EVEN, of
\* the non-negative rational num / den to an integer number of units.
QuantizeHalfEven(num, den) ==
    LET q == num \div den
        r == num % den
    IN  IF 2 * r > den THEN q + 1
        ELSE IF 2 * r < den THEN q
        ELSE IF q % 2 = 0 THEN q ELSE q + 1

\* (sol * price).quantize(Decimal("0.01")) for sol = lamports / 10^9 and a
\* quote of `quote` whole EUR per SOL: cents = lamports * quote / 10^7,
\* computed in pieces that stay inside 32 bits.
LamportsToCents(lamports, quote) ==
    LET a  == lamports \div 10000
        r  == lamports % 10000
        s  == r * quote
        T  == a * quote + (s \div 10000)
        s0 == s % 10000
        c  == T \div 1000
        R  == (T % 1000) * 10000 + s0
    IN  IF 2 * R > 10000000 THEN c + 1
        ELSE IF 2 * R < 10000000 THEN c
        ELSE IF c % 2 = 0 THEN c ELSE c + 1

NoWallet == [status |-> "none", user_id |-> 0, public_key |-> 0,
             private_key |-> 0,
             expected |-> 0, amount_received |-> 0, created_at |-> 0]
NoDeposit == [present |-> FALSE, user_id |-> 0, is_purchase |-> FALSE,
              snapshot |-> <<>>, discount_code |-> NoCode, target_eur |-> 0,
              created_at |-> 0]
\* _price_cache = {'price': None, 'timestamp': 0, ...}
NoPriceCache == [price |-> 0, timestamp |-> 0]
\* no sol_price_eur_cache row in bot_settings
NoSetting == [present |-> FALSE, price |-> 0, updated_at |-> 0]
\* history of the two caches: the time.time() of the upstream answer that
\* the price now in the memory cache, and the one in the database, came from
NoOrigin == [memory |-> 0, db |-> 0]
\* button presses of one user that can be in flight together
Callbacks == {1, 2}
\* a callback that has not been received; its locals once it runs
NoCallback == [pc |-> "idle", user_id |-> 0, basket_snapshot |-> <<>>,
               discount_code_used |-> NoCode]
NoCallbacks == [cb \in Callbacks |-> NoCallback]
\* context.user_data with no discount dialog under way
NoResellerMgmt == [state |-> "none", target_id |-> 0, product_type |-> "none",
                   mode |-> "none"]
\* no retry_purchase_finalization is running
NoRetryJob == [pc |-> "idle", order |-> 0, user_id |-> 0, snapshot |-> <<>>,
               discount_code |-> "none", attempt |-> 0, ret |-> FALSE]
\* wallets a recovery can pay out to besides ADMIN_WALLET
RecoveryTargets == {"recovery", "operator"}
\* recovery_wallet: whether SOLANA_RECOVERY_WALLET is set in the environment;
\* calls: recoveries the operator has started
NoRecoverJob == [pc |-> "idle", target |-> "none", stuck |-> <<>>,
                 recovery_wallet |-> FALSE, calls |-> 0]
\* no price was ever fetched and no recovery is running
Quiet ==
    /\ _price_cache = NoPriceCache
    /\ bot_settings = NoSetting
    /\ clock = 0
    /\ recovery_funds = [t \in RecoveryTargets |-> 0]
    /\ recover_job = NoRecoverJob
    /\ retry_job = NoRetryJob
    /\ admin_inbox = {}
    /\ reseller_discounts = <<>>
    /\ reseller_mgmt = NoResellerMgmt
    /\ paid_seen = {}
    /\ price_origin = NoOrigin
    /\ callbacks = NoCallbacks

\* the record of a step that settles nothing
NoLast == [kind |-> "none", order |-> 0, quote |-> NoQuote, finalize |-> "none",
           failed |-> {}, processed |-> <<>>, ret |-> FALSE,
           pay_address |-> 0, pay_amount |-> 0, upstream |-> NoQuote,
           target |-> "none", eur |-> 0, coupon_rows |-> 0 - 1,
           asked |-> <<>>, fx |-> [rate |-> 0, source |-> "none"]]

\* ------------------------------------------- reservation state machine (D)
\* reserve(user, product_id) on the products table: one unit moves from
\* available to reserved.
reserve(prods, p) ==
    [prods EXCEPT ![p].available = @ - 1, ![p].reserved = @ + 1]

RECURSIVE ReserveAll(_, _)
ReserveAll(prods, basket) ==
    IF basket = <<>> THEN prods
    ELSE ReserveAll(reserve(prods, Head(basket)), Tail(basket))

\* unreserve(snapshot): for each entry give the unit back; a deleted product
\* row is skipped.
RECURSIVE _unreserve_basket_items(_, _)
_unreserve_basket_items(prods, snapshot) ==
    IF snapshot = <<>> THEN prods
    ELSE LET p == Head(snapshot).product_id
             nxt == IF prods[p].exists
                    THEN [prods EXCEPT ![p].available = @ + 1,
                                       ![p].reserved = @ - 1]
                    ELSE prods
         IN  _unreserve_basket_items(nxt, Tail(snapshot))

\* The snapshot taken of the reserved basket: one entry per reserved unit
\* with its price.
RECURSIVE BasketSnapshot(_)
BasketSnapshot(basket) ==
    IF basket = <<>> THEN <<>>
    ELSE <<[product_id |-> Head(basket), price |-> Price(Head(basket))]>>
         \o BasketSnapshot(Tail(basket))

\* Coupon resolution against the subtotal: a percentage code.
ApplyCoupon(code, subtotal) ==
    IF code = NoCode THEN subtotal
    ELSE QuantizeHalfEven(subtotal * (100 - CouponPercent), 100)

\* validate_and_apply_discount_atomic: the code is still usable
\* (max_uses = 0 stands for no limit).
CouponValid(codes, code) ==
    codes[code].max_uses = 0 \/ codes[code].uses_count < codes[code].max_uses

\* context.user_data with no payment context stored
NoUserData == [state |-> "none", basket_pay_snapshot |-> <<>>,
               basket_pay_discount_code |-> NoCode]

\* The products table once basket b is reserved; for p in gone the row has
\* since been deleted, its last free unit delivered to another buyer.
InitProducts(b, gone) ==
    LET t == ReserveAll([p \in Products |->
                           [exists |-> TRUE, available |-> InitStockOf(p),
                            reserved |-> 0]], b)
    IN  [p \in Products |->
            IF p \in gone THEN [t[p] EXCEPT !.exists = FALSE] ELSE t[p]]

\* The user holds one of the baskets, its units reserved out of the stock,
\* and has entered the payment flow: the snapshot and the coupon are stored
\* in context.user_data.
Init ==
    /\ \E b \in InitBaskets, code \in Codes \cup {NoCode},
          gone \in {{}, {2}} :
          /\ gone \subseteq {b[i] : i \in 1..Len(b)}
          /\ users = [u \in Users |->
                        [balance |-> 0, total_purchases |-> 0, basket |-> b,
                         is_reseller |-> FALSE, discount_percentage |-> 0]]
          /\ user_data = [u \in Users |->
                        [state |-> "awaiting_payment",
                         basket_pay_snapshot |-> BasketSnapshot(b),
                         basket_pay_discount_code |-> code]]
          /\ products = InitProducts(b, gone)
    /\ discount_codes = [c \in Codes |-> [uses_count |-> 0, max_uses |-> 1]]
    /\ purchases = <<>>
    /\ solana_wallets = [o \in OrderIds |-> NoWallet]
    /\ pending_deposits = [o \in OrderIds |-> NoDeposit]
    /\ chain = [o \in OrderIds |-> 0]
    /\ transfers = [o \in OrderIds |-> 0]
    /\ treasury = 0
    /\ audit = <<>>
    /\ now = 0
    /\ nextOrder = 1
    /\ scanPc = "idle"
    /\ scanQueue = <<>>
    /\ sweepTasks = {}
    /\ retries = [o \in OrderIds |-> 0]
    /\ settled = [o \in OrderIds |-> 0]
    /\ commits = [o \in OrderIds |-> 0]
    /\ sold = [p \in Products |-> 0]
    /\ released = [o \in OrderIds |-> "no"]
    /\ lateInflow = [o \in OrderIds |-> 0]
    /\ last = NoLast
    /\ Quiet

\* ------------------------------------------------ ephemeral wallet engine
\* sol_amount = (Decimal(eur_amount) / price).quantize(Decimal("0.00001")),
\* in units of 10^-5 SOL: eur_cents / 100 / quote * 10^5.
ExpectedSol(eur_cents, quote) == QuantizeHalfEven(eur_cents * 1000, quote)

\* Keypair(): a key no row holds yet.
Keypair(wallets) ==
    CHOOSE k \in 1..(Cardinality(DOMAIN wallets) + 1) :
        /\ \A o \in DOMAIN wallets : wallets[o].public_key # k
        /\ \A j \in 1..(k - 1) :
              \E o \in DOMAIN wallets : wallets[o].public_key = j

\* A mint that writes its row whether or not the order has one.
create_solana_payment_overwrite(wallets, u, o, eur_cents, quote) ==
    IF quote = NoQuote
    THEN [error |-> "estimate_failed", wallets |-> wallets,
          pay_address |-> 0, pay_amount |-> 0]
    ELSE [error |-> "none",
          wallets |-> [wallets EXCEPT ![o] =
              [status |-> "pending", user_id |-> u,
               public_key |-> Keypair(wallets),
               private_key |-> Keypair(wallets),
               expected |-> ExpectedSol(eur_cents, quote),
               amount_received |-> 0, created_at |-> now]],
          pay_address |-> Keypair(wallets),
          pay_amount |-> ExpectedSol(eur_cents, quote)]

\* A mint that inserts its row before it asks for the price.
create_solana_payment_insert_first(wallets, u, o, eur_cents, quote) ==
    [error |-> IF quote = NoQuote THEN "estimate_failed" ELSE "none",
     wallets |-> [wallets EXCEPT ![o] =
         [status |-> "pending", user_id |-> u,
          public_key |-> Keypair(wallets),
          private_key |-> Keypair(wallets),
          expected |-> IF quote = NoQuote THEN 0
                       ELSE ExpectedSol(eur_cents, quote),
          amount_received |-> 0, created_at |-> now]],
     pay_address |-> Keypair(wallets),
     pay_amount |-> IF quote = NoQuote THEN 0
                    ELSE ExpectedSol(eur_cents, quote)]

\* create_solana_payment: without a price nothing is done; an order that
\* has a row gets that row's address and amount back; otherwise a row with a
\* new keypair is inserted.
create_solana_payment(wallets, u, o, eur_cents, quote) ==
    IF quote = NoQuote
    THEN [error |-> "estimate_failed", wallets |-> wallets,
          pay_address |-> 0, pay_amount |-> 0]
    ELSE IF wallets[o].status # "none"
    THEN [error |-> "none", wallets |-> wallets,
          pay_address |-> wallets[o].public_key,
          pay_amount |-> wallets[o].expected]
    ELSE [error |-> "none",
          wallets |-> [wallets EXCEPT ![o] =
              [status |-> "pending", user_id |-> u,
               public_key |-> Keypair(wallets),
               private_key |-> Keypair(wallets),
               expected |-> ExpectedSol(eur_cents, quote),
               amount_received |-> 0, created_at |-> now]],
          pay_address |-> Keypair(wallets),
          pay_amount |-> ExpectedSol(eur_cents, quote)]

\* create_nowpayments_payment: re-validate the coupon, create the wallet,
\* then add the pending deposit.
create_nowpayments_payment(u, target_eur, is_purchase, snapshot, code, quote) ==
    IF is_purchase /\ code # NoCode /\ ~CouponValid(discount_codes, code)
    THEN [error |-> "discount_code_invalid", wallets |-> solana_wallets,
          deposits |-> pending_deposits]
    ELSE LET sp == create_solana_payment(solana_wallets, u, nextOrder,
                                         target_eur, quote)
         IN  IF sp.error # "none"
             THEN [error |-> sp.error, wallets |-> sp.wallets,
                   deposits |-> pending_deposits]
             ELSE [error |-> "none", wallets |-> sp.wallets,
                   deposits |-> [pending_deposits EXCEPT ![nextOrder] =
                      [present |-> TRUE, user_id |-> u,
                       is_purchase |-> is_purchase, snapshot |-> snapshot,
                       discount_code |-> code, target_eur |-> target_eur,
                       created_at |-> now]]]

\* create_nowpayments_payment with a database that can fail: an INSERT of
\* the wallet row that raises is rolled back and reported as
\* internal_server_error; an add_pending_deposit that returns False is
\* reported as pending_db_error, after the wallet row was committed.
create_nowpayments_payment_db(u, target_eur, is_purchase, snapshot, code, quote, insertOk, addOk) ==
    LET res == create_nowpayments_payment(u, target_eur, is_purchase,
                                          snapshot, code, quote)
    IN  IF res.error # "none" THEN res
        ELSE IF ~insertOk
        THEN [error |-> "internal_server_error", wallets |-> solana_wallets,
              deposits |-> pending_deposits]
        ELSE IF ~addOk
        THEN [error |-> "pending_db_error", wallets |-> res.wallets,
              deposits |-> pending_deposits]
        ELSE res

\* handle_select_basket_crypto: the stored context is invoiced and cleared;
\* the snapshot is un-reserved only for estimate_failed.
handle_select_basket_crypto_db(u, quote, insertOk, addOk) ==
    /\ UNCHANGED more
    /\ nextOrder \in OrderIds
    /\ user_data[u].state = "awaiting_payment"
    /\ LET snapshot == user_data[u].basket_pay_snapshot
           code == user_data[u].basket_pay_discount_code
           total == ApplyCoupon(code, SumPrices(snapshot))
           res == create_nowpayments_payment_db(u, total, TRUE, snapshot,
                                                code, quote, insertOk, addOk)
       IN  /\ solana_wallets' = res.wallets
           /\ pending_deposits' = res.deposits
           /\ nextOrder' = IF res.wallets # solana_wallets THEN nextOrder + 1
                           ELSE nextOrder
           /\ products' = IF res.error = "estimate_failed"
                          THEN _unreserve_basket_items(products, snapshot)
                          ELSE products
           /\ last' = [NoLast EXCEPT !.kind = "invoice", !.quote = quote,
                                     !.finalize = res.error]
    /\ user_data' = [user_data EXCEPT ![u] = NoUserData]
    /\ UNCHANGED <<users, discount_codes, purchases, chain, transfers,
                   treasury, audit, now, scanPc, scanQueue, sweepTasks,
                   retries, settled, commits, sold, released, lateInflow>>

\* The same callback with a database that answers.
handle_select_basket_crypto(u, quote) ==
    handle_select_basket_crypto_db(u, quote, TRUE, TRUE)

\* handle_select_refill_crypto: a refill invoice of amount cents.
handle_select_refill_crypto(u, amount, quote) ==
    /\ UNCHANGED more
    /\ nextOrder \in OrderIds
    /\ LET res == create_nowpayments_payment(u, amount, FALSE, <<>>, NoCode,
                                             quote)
       IN  /\ res.error = "none"
           /\ solana_wallets' = res.wallets
           /\ pending_deposits' = res.deposits
           /\ nextOrder' = nextOrder + 1
    /\ last' = NoLast
    /\ UNCHANGED <<products, users, user_data, discount_codes, purchases,
                   chain, transfers, treasury, audit, now, scanPc, scanQueue,
                   sweepTasks, retries, settled, commits, sold, released, lateInflow>>

\* remove_pending_deposit(payment_id, trigger): the row is deleted; for a
\* purchase whose trigger is not a success the snapshot is un-reserved.
remove_pending_deposit(deposits, prods, o, trigger) ==
    [deposits |-> [deposits EXCEPT ![o] = NoDeposit],
     products |-> IF deposits[o].present /\ deposits[o].is_purchase
                     /\ trigger \notin {"retry_success", "success"}
                  THEN _unreserve_basket_items(prods, deposits[o].snapshot)
                  ELSE prods]

\* handle_cancel_crypto_payment: the pending deposit is removed with trigger
\* user_cancellation.  The wallet row is left as it is.
handle_cancel_crypto_payment(o) ==
    /\ UNCHANGED more
    /\ pending_deposits[o].present
    /\ LET rm == remove_pending_deposit(pending_deposits, products, o,
                                        "user_cancellation")
       IN  /\ pending_deposits' = rm.deposits
           /\ products' = rm.products
    /\ released' = [released EXCEPT ![o] = "user_cancellation"]
    /\ last' = NoLast
    /\ UNCHANGED <<users, user_data, discount_codes, purchases, solana_wallets,
                   chain, transfers, treasury, audit, now, nextOrder, scanPc,
                   scanQueue, sweepTasks, retries, settled, commits, sold,
                   lateInflow>>

\* ----------------------------------------------------------- environment
\* The amounts a payer may send to an address expecting e units of 10^-5 SOL.
PayAmounts(e) ==
    { DustLamports,
      e * (TOLERANCE_PER_10K - 10),
      e * TOLERANCE_PER_10K,
      e * LAMPORTS_PER_UNIT + SURPLUS_MIN_LAMPORTS,
      e * LAMPORTS_PER_UNIT + BigSurplusLamports }

\* An on-chain transfer to the order's address.
Transfer(o, amount) ==
    /\ UNCHANGED more
    /\ solana_wallets[o].status # "none"
    /\ transfers[o] < MaxTransfers
    /\ chain' = [chain EXCEPT ![o] = @ + amount]
    /\ transfers' = [transfers EXCEPT ![o] = @ + 1]
    /\ lateInflow' = [lateInflow EXCEPT ![o] =
                         IF released[o] = "user_cancellation"
                         THEN @ + amount ELSE @]
    /\ last' = NoLast
    /\ UNCHANGED <<products, users, user_data, discount_codes, purchases,
                   solana_wallets, pending_deposits, treasury, audit, now,
                   nextOrder, scanPc, scanQueue, sweepTasks, retries, settled,
                   commits, sold, released>>

\* Time passes.
Tick ==
    /\ UNCHANGED more
    /\ now < MaxTicks
    /\ now' = now + 1
    /\ last' = NoLast
    /\ UNCHANGED <<products, users, user_data, discount_codes, purchases,
                   solana_wallets, pending_deposits, chain, transfers,
                   treasury, audit, nextOrder, scanPc, scanQueue, sweepTasks,
                   retries, settled, commits, sold, released, lateInflow>>

\* --------------------------------------------------- purchase finalization
\* The tables one finalize transaction reads and writes.
Db == [products |-> products, users |-> users, purchases |-> purchases,
       discount_codes |-> discount_codes]

\* get_reseller_discount_with_connection: the percentage stored for a
\* reseller and the product type (one type here), 0 for anyone else.
get_reseller_discount_with_connection(tbl, u, p) ==
    IF tbl[u].is_reseller THEN tbl[u].discount_percentage ELSE 0

\* Pre-validation of every snapshot entry against the rows as first read.
PreValidate(prods, snapshot) ==
    \A i \in 1..Len(snapshot) :
        /\ prods[snapshot[i].product_id].exists
        /\ prods[snapshot[i].product_id].available > 0

\* A decrement clamped at zero instead of guarded: the row always matches.
StockDecrementClamped(prods, p) ==
    IF prods[p].exists /\ prods[p].available > 0
    THEN [rowcount |-> 1, products |-> [prods EXCEPT ![p].available = @ - 1]]
    ELSE [rowcount |-> 1, products |-> prods]

\* A decrement that takes the unit out of `reserved` as well.
StockDecrementAlsoReserved(prods, p) ==
    IF prods[p].exists /\ prods[p].available > 0
    THEN [rowcount |-> 1,
          products |-> [prods EXCEPT ![p].available = @ - 1,
                                     ![p].reserved = @ - 1]]
    ELSE [rowcount |-> 0, products |-> prods]

\* A decrement with no guard on the remaining stock.
StockDecrementUnguarded(prods, p) ==
    IF prods[p].exists
    THEN [rowcount |-> 1, products |-> [prods EXCEPT ![p].available = @ - 1]]
    ELSE [rowcount |-> 0, products |-> prods]

\* UPDATE products SET available = available - 1 WHERE id = ? AND available > 0
StockDecrement(prods, p) ==
    IF prods[p].exists /\ prods[p].available > 0
    THEN [rowcount |-> 1, products |-> [prods EXCEPT ![p].available = @ - 1]]
    ELSE [rowcount |-> 0, products |-> prods]

\* price_paid of one entry: the snapshot price less the reseller discount
\* read inside the transaction, the discount rounded down to the cent.
PricePaid(tbl, u, item) ==
    item.price
      - ((item.price
            * get_reseller_discount_with_connection(tbl, u, item.product_id))
         \div 100)

\* The loop over the snapshot: decrement, then queue the Purchase row.
RECURSIVE FinalizeLoop(_, _, _, _)
FinalizeLoop(acc, tbl, u, snapshot) ==
    IF snapshot = <<>> \/ ~acc.ok THEN acc
    ELSE LET item == Head(snapshot)
             upd == StockDecrement(acc.products, item.product_id)
         IN  IF upd.rowcount = 0
             THEN [acc EXCEPT !.ok = FALSE]
             ELSE FinalizeLoop(
                    [ok |-> TRUE,
                     products |-> upd.products,
                     rows |-> Append(acc.rows,
                                [user_id |-> u, product_id |-> item.product_id,
                                 price_paid |-> PricePaid(tbl, u, item)]),
                     processed |-> Append(acc.processed, item.product_id)],
                    tbl, u, Tail(snapshot))

\* An increment with no test of max_uses.
CouponIncrementUnconditional(codes, code) ==
    IF code = NoCode THEN codes
    ELSE [codes EXCEPT ![code].uses_count = @ + 1]

\* UPDATE discount_codes SET uses_count = uses_count + 1
\*  WHERE code = ? AND (max_uses IS NULL OR uses_count < max_uses)
CouponIncrement(codes, code) ==
    IF code = NoCode THEN codes
    ELSE IF codes[code].max_uses = 0 \/ codes[code].uses_count < codes[code].max_uses
    THEN [codes EXCEPT ![code].uses_count = @ + 1]
    ELSE codes

\* An abandoned transaction whose writes are kept.
RollbackKeepsWrites(db, partial) == partial

\* conn.rollback(): what the transaction leaves when it is abandoned after
\* having reached the tables in `partial`.
Rollback(db, partial) == db

\* update_result.rowcount of the coupon UPDATE
CouponRowcount(codes, code) ==
    IF CouponIncrement(codes, code) = codes THEN 0 ELSE 1

\* A coupon UPDATE of zero rows that abandons the sale.
AfterCouponUpdateRollsBack(db, tx, rowcount) ==
    IF rowcount = 0
    THEN [committed |-> FALSE, why |-> "coupon_rowcount_zero",
          db |-> Rollback(db, tx.db), processed |-> <<>>]
    ELSE tx

\* if update_result.rowcount == 0: the code is looked up and the outcome
\* logged; the transaction goes on to clear the basket and commit either way.
AfterCouponUpdate(db, tx, rowcount) == tx

\* The transaction of _finalize_purchase.
FinalizeTx(db, u, snapshot, code) ==
    IF ~PreValidate(db.products, snapshot)
    THEN [committed |-> FALSE, why |-> "stock_vanished",
          db |-> Rollback(db, db), processed |-> <<>>]
    ELSE LET run == FinalizeLoop([ok |-> TRUE, products |-> db.products,
                                  rows |-> <<>>, processed |-> <<>>],
                                 db.users, u, snapshot)
         IN  IF ~run.ok
             THEN [committed |-> FALSE, why |-> "rowcount_zero",
                   db |-> Rollback(db, [db EXCEPT !.products = run.products,
                                                  !.purchases = @ \o run.rows]),
                   processed |-> <<>>]
             ELSE LET tx == [committed |-> TRUE, why |-> "none",
                             db |-> [products |-> run.products,
                                     users |-> [db.users EXCEPT
                                        ![u].total_purchases = @ + Len(run.rows),
                                        ![u].basket = <<>>],
                                     purchases |-> db.purchases \o run.rows,
                                     discount_codes |->
                                        CouponIncrement(db.discount_codes, code)],
                             processed |-> run.processed]
                  IN  IF code = NoCode THEN tx
                      ELSE AfterCouponUpdate(db, tx,
                              CouponRowcount(db.discount_codes, code))

\* Outcomes of the messenger calls of one delivery: the set of sends that
\* fail if attempted (a media group or an animation whose send returns
\* nothing, a text send that raises).
DeliveryInputs == {{}, {"group"}, {"anim"}, {"text"}}

\* The sends that one delivery attempts for the processed products.
Attempted(processed) ==
    UNION {Media(processed[i]) : i \in 1..Len(processed)} \cup {"text"}

\* The sends of delivery d that failed.
FailedSends(processed, d) == Attempted(processed) \cap d

\* media_delivery_successful after the delivery block: a failed media group
\* or animation raises inside a try whose handler only logs; a failed text
\* send escapes to the outer handler, which clears the flag.
MediaDeliverySuccessful(processed, d) ==
    "text" \notin FailedSends(processed, d)

\* DELETE FROM products WHERE id = ? for every processed id.
DeleteProducts(prods, processed) ==
    [p \in Products |->
        IF \E i \in 1..Len(processed) : processed[i] = p
        THEN [prods[p] EXCEPT !.exists = FALSE]
        ELSE prods[p]]

\* _finalize_purchase: the transaction, then delivery, then the deletion of
\* the product rows gated on the delivery flag.
\* Returns the value returned, whether the transaction committed and why not,
\* the tables as committed, the tables after the deletion, the processed
\* product ids and the sends that failed.
_finalize_purchase(db, u, snapshot, code, d) ==
    IF snapshot = <<>>
    THEN [ret |-> FALSE, committed |-> FALSE, why |-> "empty_snapshot",
          txdb |-> db, db |-> db, processed |-> <<>>, failed |-> {}]
    ELSE LET tx == FinalizeTx(db, u, snapshot, code)
         IN  IF ~tx.committed
             THEN [ret |-> FALSE, committed |-> FALSE, why |-> tx.why,
                   txdb |-> tx.db, db |-> tx.db, processed |-> <<>>,
                   failed |-> {}]
             ELSE LET okd == MediaDeliverySuccessful(tx.processed, d)
                  IN  [ret |-> okd,
                       committed |-> TRUE,
                       why |-> "none",
                       txdb |-> tx.db,
                       db |-> IF okd
                              THEN [tx.db EXCEPT !.products =
                                       DeleteProducts(@, tx.processed)]
                              ELSE tx.db,
                       processed |-> tx.processed,
                       failed |-> FailedSends(tx.processed, d)]

\* process_successful_crypto_purchase: finalize, and report its result.
process_successful_crypto_purchase(db, u, snapshot, code, d) ==
    _finalize_purchase(db, u, snapshot, code, d)

\* Units of each product sold so far, after one more finalize: what its
\* committed transaction took out of `available`.
SoldAfter(db, fin) ==
    [p \in Products |->
        sold[p] + (db.products[p].available - fin.txdb.products[p].available)]

\* What a settlement step leaves in `last`.
LastOf(kind, o, quote, fin) ==
    [NoLast EXCEPT
        !.kind = kind, !.order = o, !.quote = quote,
        !.finalize = IF fin.committed THEN "committed" ELSE fin.why,
        !.failed = fin.failed, !.processed = fin.processed, !.ret = fin.ret]

\* The result of no finalize having run.
NoFinalize ==
    [ret |-> FALSE, committed |-> FALSE, why |-> "none", txdb |-> Db,
     db |-> Db, processed |-> <<>>, failed |-> {}]

\* ----------------------------------------------------------- balance ledger
\* A credit that moves the balance and writes no audit entry.
credit_user_balance_unaudited(tbl, log, u, amount, reason, order) ==
    IF amount <= 0
    THEN [ok |-> FALSE, users |-> tbl, audit |-> log]
    ELSE [ok |-> TRUE,
          users |-> [tbl EXCEPT ![u].balance = @ + amount],
          audit |-> log]

\* credit_user_balance on the users table and the audit log: a non-positive
\* amount is refused; otherwise the balance grows and an audit entry is
\* written in the same transaction.
credit_user_balance(tbl, log, u, amount, reason, order) ==
    IF amount <= 0
    THEN [ok |-> FALSE, users |-> tbl, audit |-> log]
    ELSE [ok |-> TRUE,
          users |-> [tbl EXCEPT ![u].balance = @ + amount],
          audit |-> Append(log, [user_id |-> u, amount_change |-> amount,
                                 reason |-> reason, order |-> order])]

\* process_successful_refill: credit the refill amount.
process_successful_refill(tbl, log, u, amount, order) ==
    credit_user_balance(tbl, log, u, amount, "Refill payment", order)

\* ------------------------------------------------------- pay with balance
\* A compensation that gives nothing back.
BalanceRefundNone(tbl, u, amount) == tbl

\* UPDATE users SET balance = balance - ? WHERE user_id = ?
BalanceDebit(tbl, u, amount) == [tbl EXCEPT ![u].balance = @ - amount]

\* UPDATE users SET balance = balance + ? WHERE user_id = ?, the refund after
\* a failed finalize.
BalanceRefund(tbl, u, amount) == [tbl EXCEPT ![u].balance = @ + amount]

\* process_purchase_with_balance for the stored basket context: with too
\* small a balance the snapshot is un-reserved; otherwise the amount is
\* debited and committed, the purchase finalized, and the amount given back
\* if finalize reports failure.  The value returned is left in last.ret.
process_purchase_with_balance_call(u, amount_to_deduct, d) ==
    /\ UNCHANGED more
    /\ user_data[u].state = "awaiting_payment"
    /\ LET snapshot == user_data[u].basket_pay_snapshot
           code == user_data[u].basket_pay_discount_code
       IN  IF snapshot = <<>> \/ amount_to_deduct < 0
           THEN /\ last' = [NoLast EXCEPT !.kind = "balance",
                                          !.finalize = "invalid_amount",
                                          !.eur = amount_to_deduct]
                /\ UNCHANGED <<products, users, purchases, discount_codes,
                               sold>>
           ELSE IF users[u].balance < amount_to_deduct
           THEN /\ products' = _unreserve_basket_items(products, snapshot)
                /\ last' = [NoLast EXCEPT !.kind = "balance",
                                          !.finalize = "insufficient_balance",
                                          !.eur = amount_to_deduct]
                /\ UNCHANGED <<users, purchases, discount_codes, sold>>
           ELSE LET db1 == [Db EXCEPT !.users =
                               BalanceDebit(users, u, amount_to_deduct)]
                    fin == _finalize_purchase(db1, u, snapshot, code, d)
                IN  /\ products' = fin.db.products
                    /\ purchases' = fin.db.purchases
                    /\ discount_codes' = fin.db.discount_codes
                    /\ users' = IF fin.ret THEN fin.db.users
                                ELSE BalanceRefund(fin.db.users, u,
                                                   amount_to_deduct)
                    /\ sold' = SoldAfter(db1, fin)
                    /\ last' = [LastOf("balance", 0, NoQuote, fin)
                                   EXCEPT !.eur = amount_to_deduct,
                                          !.coupon_rows =
                                             IF code = NoCode \/ ~fin.committed
                                             THEN 0 - 1
                                             ELSE CouponRowcount(
                                                    discount_codes, code)]
    /\ user_data' = [user_data EXCEPT ![u] = NoUserData]
    /\ UNCHANGED <<solana_wallets, pending_deposits, chain, transfers,
                   treasury, audit, now, nextOrder, scanPc, scanQueue,
                   sweepTasks, retries, settled, commits, released,
                   lateInflow>>

\* The payment menu's call: the amount is the basket total after the coupon.
process_purchase_with_balance(u, d) ==
    process_purchase_with_balance_call(u,
        ApplyCoupon(user_data[u].basket_pay_discount_code,
                    SumPrices(user_data[u].basket_pay_snapshot)), d)

\* ------------------------------------------------------------ the scanner
\* A tolerance test that leaves the boundary out.
WithinToleranceStrict(lamports, expected) ==
    lamports > expected * TOLERANCE_PER_10K

\* An overpayment test with no threshold.
SurplusCreditedAnyPositive(surplus) == surplus > 0

\* sol_balance >= expected * Decimal("0.995"), balance in lamports and
\* expected in 10^-5 SOL.
WithinTolerance(lamports, expected) ==
    lamports >= expected * TOLERANCE_PER_10K

\* surplus > Decimal("0.0005")
SurplusCredited(surplus) == surplus > SURPLUS_MIN_LAMPORTS

\* datetime.now - created_at > timedelta(minutes=20)
Expired(created_at) ==
    (now - created_at) * TickMinutes > PAYMENT_TIMEOUT_MIN

\* The branch of the if/elif chain taken for a balance.
Classify(lamports, expected, created_at) ==
    IF lamports > 0 /\ WithinTolerance(lamports, expected) THEN "paid"
    ELSE IF lamports > 0 THEN "under"
    ELSE IF Expired(created_at) THEN "expired"
    ELSE "idle"

\* SELECT * FROM solana_wallets WHERE status = 'pending'; with no row the
\* job returns at once.
check_solana_deposits_begin ==
    /\ UNCHANGED more
    /\ scanPc = "idle"
    /\ \E o \in DOMAIN solana_wallets : solana_wallets[o].status = "pending"
    /\ scanQueue' = SeqOfSet({o \in DOMAIN solana_wallets :
                                 solana_wallets[o].status = "pending"})
    /\ scanPc' = "loop"
    /\ last' = NoLast
    /\ UNCHANGED <<products, users, user_data, discount_codes, purchases,
                   solana_wallets, pending_deposits, chain, transfers,
                   treasury, audit, now, nextOrder, sweepTasks, retries,
                   settled, commits, sold, released, lateInflow>>

\* asyncio.create_task(sweep_wallet(wallet, lamports)): the task holds the
\* row as the scan fetched it, status 'pending'.
ScanSweepTask(o, lamports) ==
    {[order |-> o, status |-> "pending", lamports |-> lamports]}

\* One pass of the loop body whose balance read raises: continue.
check_solana_deposits_rpc_error ==
    /\ UNCHANGED more
    /\ scanPc = "loop"
    /\ scanQueue # <<>>
    /\ scanQueue' = Tail(scanQueue)
    /\ last' = [NoLast EXCEPT !.kind = "rpc_error", !.order = Head(scanQueue)]
    /\ UNCHANGED <<products, users, user_data, discount_codes, purchases,
                   solana_wallets, pending_deposits, chain, transfers,
                   treasury, audit, now, nextOrder, scanPc, sweepTasks,
                   retries, settled, commits, sold, released, lateInflow>>

\* The paid branch for wallet o holding b lamports.
ScanPaid(o, b, quote, d) ==
    LET w == solana_wallets[o]
        u == w.user_id
        dep == pending_deposits[o]
        surplus == b - w.expected * LAMPORTS_PER_UNIT
        surplus_eur == IF SurplusCredited(surplus) /\ quote # NoQuote
                       THEN LamportsToCents(surplus, quote) ELSE 0
        over == IF surplus_eur > 0
                THEN credit_user_balance(users, audit, u, surplus_eur,
                                         "Overpayment bonus", o)
                ELSE [ok |-> FALSE, users |-> users, audit |-> audit]
        db1 == [Db EXCEPT !.users = over.users]
        fin == IF dep.present /\ dep.is_purchase
               THEN process_successful_crypto_purchase(db1, u, dep.snapshot,
                                                       dep.discount_code, d)
               ELSE [NoFinalize EXCEPT !.db = db1, !.txdb = db1]
        refill == IF dep.present /\ ~dep.is_purchase
                  THEN process_successful_refill(fin.db.users, over.audit, u,
                                                 dep.target_eur, o)
                  ELSE [ok |-> FALSE, users |-> fin.db.users,
                        audit |-> over.audit]
        success == fin.ret \/ refill.ok
    IN  /\ solana_wallets' = [solana_wallets EXCEPT
                                ![o].status = "paid", ![o].amount_received = b]
        /\ products' = fin.db.products
        /\ purchases' = fin.db.purchases
        /\ discount_codes' = fin.db.discount_codes
        /\ users' = refill.users
        /\ audit' = refill.audit
        /\ sweepTasks' = sweepTasks \cup ScanSweepTask(o, b)
        /\ settled' = [settled EXCEPT ![o] = @ + (IF success THEN 1 ELSE 0)]
        /\ commits' = [commits EXCEPT
                         ![o] = @ + (IF fin.committed THEN 1 ELSE 0)]
        /\ sold' = SoldAfter(db1, fin)
        /\ last' = LastOf("paid", o, quote, fin)

\* The underpayment branch for wallet o holding b lamports: with a price and
\* a refund of at least a cent the user is told, credited, the wallet marked
\* and a sweep task created; a notification that raises abandons the branch.
ScanUnder(o, b, quote, d) ==
    LET w == solana_wallets[o]
        refund_eur == IF quote # NoQuote THEN LamportsToCents(b, quote) ELSE 0
        notified == "text" \notin d
        cr == IF refund_eur > 0 /\ notified
              THEN credit_user_balance(users, audit, w.user_id, refund_eur,
                                       "Underpayment refund", o)
              ELSE [ok |-> FALSE, users |-> users, audit |-> audit]
    IN  /\ IF refund_eur > 0 /\ notified
           THEN /\ solana_wallets' = [solana_wallets EXCEPT
                       ![o].status = "refunded", ![o].amount_received = b]
                /\ sweepTasks' = sweepTasks \cup ScanSweepTask(o, b)
           ELSE UNCHANGED <<solana_wallets, sweepTasks>>
        /\ users' = cr.users
        /\ audit' = cr.audit
        /\ last' = [NoLast EXCEPT !.kind = "under", !.order = o,
                                  !.quote = quote,
                                  !.failed = IF refund_eur > 0
                                             THEN d ELSE {}]
        /\ UNCHANGED <<products, purchases, discount_codes, settled, commits,
                       sold>>

\* The expiry branch, and the wallet that is left alone.
ScanIdle(o, branch) ==
    /\ solana_wallets' = IF branch = "expired"
                         THEN [solana_wallets EXCEPT ![o].status = "expired"]
                         ELSE solana_wallets
    /\ last' = [NoLast EXCEPT !.kind = branch, !.order = o]
    /\ UNCHANGED <<products, users, purchases, discount_codes, audit,
                   sweepTasks, settled, commits, sold>>

\* One pass of the loop body of check_solana_deposits with a balance read
\* that succeeded: classify the wallet and act on the class.
check_solana_deposits_wallet(quote, d) ==
    /\ UNCHANGED <<_price_cache, bot_settings, clock, recovery_funds,
                   recover_job, retry_job, admin_inbox, reseller_discounts,
                   reseller_mgmt, price_origin, callbacks>>
    /\ scanPc = "loop"
    /\ scanQueue # <<>>
    /\ LET o == Head(scanQueue)
           b == chain[o]
           branch == Classify(b, solana_wallets[o].expected,
                              solana_wallets[o].created_at)
       IN  /\ paid_seen' = IF branch = "paid" THEN paid_seen \cup {o}
                           ELSE paid_seen
           /\ CASE branch = "paid" -> ScanPaid(o, b, quote, d)
                [] branch = "under" ->
                      d \in {{}, {"text"}} /\ ScanUnder(o, b, quote, d)
                [] OTHER -> ScanIdle(o, branch)
    /\ scanQueue' = Tail(scanQueue)
    /\ UNCHANGED <<user_data, pending_deposits, chain, transfers, treasury,
                   now, nextOrder, scanPc, retries, released, lateInflow>>

\* The end of the scan: a sweep task for every wallet found 'paid'.
check_solana_deposits_recovery ==
    /\ UNCHANGED more
    /\ scanPc = "loop"
    /\ scanQueue = <<>>
    /\ scanPc' = "idle"
    /\ sweepTasks' = sweepTasks \cup
          {[order |-> o, status |-> "paid", lamports |-> 0] :
              o \in {x \in DOMAIN solana_wallets :
                         solana_wallets[x].status = "paid"}}
    /\ last' = NoLast
    /\ UNCHANGED <<products, users, user_data, discount_codes, purchases,
                   solana_wallets, pending_deposits, chain, transfers,
                   treasury, audit, now, nextOrder, scanQueue, retries,
                   settled, commits, sold, released, lateInflow>>

\* ------------------------------------------------------------------ sweep
\* An amount that leaves nothing for the fee.
AmountToSendWhole(current) == current

\* amount_to_send = current_lamports - fee
AmountToSend(current) == current - SWEEP_FEE

\* if current_lamports < 5000: ignore dust
IgnoreDust(current) == current < SWEEP_FEE

\* Keypair.from_bytes(private_key).pubkey(): the address a stored key signs
\* for; key 0 stands for bytes from_bytes rejects.
KeyLoads(k) == k # 0

\* the wallet row whose address is the one key k signs for
AddressOwner(wallets, k) ==
    CHOOSE o \in DOMAIN wallets : wallets[o].public_key = k

\* sweep_wallet(wallet_data, current_lamports): rpcOk is whether the RPC
\* calls it makes (balance read, blockhash, send) go through.  The transfer
\* is made from the address of the stored private key, which no action
\* rewrites after the row is inserted.
sweep_wallet(t, rpcOk) ==
    /\ UNCHANGED more
    /\ t \in sweepTasks
    /\ sweepTasks' = sweepTasks \ {t}
    /\ LET o == t.order
           current == IF t.lamports = 0 THEN chain[o] ELSE t.lamports
       IN  IF t.lamports = 0 /\ ~rpcOk
           THEN UNCHANGED <<solana_wallets, chain, treasury>>
           ELSE IF IgnoreDust(current)
           THEN /\ solana_wallets' =
                      IF t.status = "paid"
                      THEN [solana_wallets EXCEPT ![o].status = "swept"]
                      ELSE solana_wallets
                /\ UNCHANGED <<chain, treasury>>
           ELSE IF \/ ~KeyLoads(solana_wallets[o].private_key)
                   \/ AmountToSend(current) <= 0
                   \/ ~rpcOk
                   \/ chain[AddressOwner(solana_wallets,
                            solana_wallets[o].private_key)] < current
           THEN UNCHANGED <<solana_wallets, chain, treasury>>
           ELSE /\ chain' = [chain EXCEPT
                      ![AddressOwner(solana_wallets,
                            solana_wallets[o].private_key)] = @ - current]
                /\ treasury' = treasury + AmountToSend(current)
                /\ solana_wallets' =
                      [solana_wallets EXCEPT ![o].status = "swept"]
    /\ last' = NoLast
    /\ UNCHANGED <<products, users, user_data, discount_codes, purchases,
                   pending_deposits, transfers, audit, now, nextOrder, scanPc,
                   scanQueue, retries, settled, commits, sold, released, lateInflow>>

\* ------------------------------------------------------- retry and timeout
\* One attempt of the loop of retry_purchase_finalization, entered for a
\* confirmed purchase whose finalization has not reported success: finalize
\* again and, on success, remove the pending deposit.
retry_purchase_finalization(o, d) ==
    /\ UNCHANGED more
    /\ pending_deposits[o].present
    /\ pending_deposits[o].is_purchase
    /\ solana_wallets[o].status \in {"paid", "swept"}
    /\ settled[o] = 0
    /\ retries[o] < MAX_RETRIES
    /\ LET dep == pending_deposits[o]
           fin == process_successful_crypto_purchase(Db, dep.user_id,
                      dep.snapshot, dep.discount_code, d)
           rm == remove_pending_deposit(pending_deposits, fin.db.products, o,
                                        "retry_success")
       IN  /\ products' = IF fin.ret THEN rm.products ELSE fin.db.products
           /\ users' = fin.db.users
           /\ purchases' = fin.db.purchases
           /\ discount_codes' = fin.db.discount_codes
           /\ pending_deposits' = IF fin.ret THEN rm.deposits
                                  ELSE pending_deposits
           /\ retries' = [retries EXCEPT ![o] = @ + 1]
           /\ settled' = [settled EXCEPT ![o] = @ + (IF fin.ret THEN 1 ELSE 0)]
           /\ commits' = [commits EXCEPT
                            ![o] = @ + (IF fin.committed THEN 1 ELSE 0)]
           /\ sold' = SoldAfter(Db, fin)
           /\ last' = LastOf("retry", o, NoQuote, fin)
    /\ UNCHANGED <<user_data, solana_wallets, chain, transfers, treasury,
                   audit, now, nextOrder, scanPc, scanQueue, sweepTasks,
                   released, lateInflow>>

\* clean_expired_pending_payments, the payment_timeout job: a pending deposit
\* older than the payment lifetime is removed and its snapshot un-reserved.
clean_expired_pending_payments(o) ==
    /\ UNCHANGED more
    /\ pending_deposits[o].present
    /\ Expired(pending_deposits[o].created_at)
    /\ LET rm == remove_pending_deposit(pending_deposits, products, o,
                                        "timeout")
       IN  /\ pending_deposits' = rm.deposits
           /\ products' = rm.products
    /\ released' = [released EXCEPT ![o] = "timeout"]
    /\ last' = NoLast
    /\ UNCHANGED <<users, user_data, discount_codes, purchases, solana_wallets,
                   chain, transfers, treasury, audit, now, nextOrder, scanPc,
                   scanQueue, sweepTasks, retries, settled, commits, sold,
                   lateInflow>>

\* ------------------------------------------------------------ next state
Next ==
    \/ \E u \in Users, q \in QuoteInputs : handle_select_basket_crypto(u, q)
    \/ \E u \in Users, a \in RefillAmounts, q \in QuoteInputs :
          handle_select_refill_crypto(u, a, q)
    \/ \E o \in OrderIds : handle_cancel_crypto_payment(o)
    \/ \E o \in OrderIds :
          \E a \in PayAmounts(solana_wallets[o].expected) : Transfer(o, a)
    \/ Tick
    \/ check_solana_deposits_begin
    \/ check_solana_deposits_rpc_error
    \/ \E q \in QuoteInputs, d \in DeliveryInputs :
          check_solana_deposits_wallet(q, d)
    \/ check_solana_deposits_recovery
    \/ \E t \in sweepTasks, rpcOk \in BOOLEAN : sweep_wallet(t, rpcOk)
    \/ \E o \in OrderIds, d \in DeliveryInputs :
          retry_purchase_finalization(o, d)
    \/ \E o \in OrderIds : clean_expired_pending_payments(o)

Spec == Init /\ [][Next]_vars

\* The scan job and the timeout job keep running, and a scan that keeps
\* visiting a wallet eventually reads its balance, has a price and reaches
\* the user.
Fairness ==
    /\ WF_vars(check_solana_deposits_begin)
    /\ WF_vars(check_solana_deposits_recovery)
    /\ SF_vars(\E q \in Quotes : check_solana_deposits_wallet(q, {}))
    /\ WF_vars(\E o \in OrderIds : clean_expired_pending_payments(o))

FairSpec == Spec /\ Fairness

\* ------------------------------------------------ two invoices being settled
\* The buyers of the two invoices; order o belongs to user o.
Buyers == {1, 2}
\* percentages the admin enters for a reseller
ResellerPercents == {10}

\* Audit entries written by the reseller handlers.
ResellerEdits ==
    Cardinality({i \in 1..Len(audit) :
                    audit[i].reason \in {"reseller_toggle", "reseller_discount"}})

\* handle_reseller_toggle_status: flip is_reseller and log the action.
handle_reseller_toggle_status(u) ==
    /\ UNCHANGED more
    /\ ResellerEdits < MaxResellerEdits
    /\ users' = [users EXCEPT ![u].is_reseller = ~@]
    /\ audit' = Append(audit, [user_id |-> u, amount_change |-> 0,
                               reason |-> "reseller_toggle", order |-> 0])
    /\ last' = NoLast
    /\ UNCHANGED <<products, user_data, discount_codes, purchases,
                   solana_wallets, pending_deposits, chain, transfers,
                   treasury, now, nextOrder, scanPc, scanQueue, sweepTasks,
                   retries, settled, commits, sold, released, lateInflow>>

\* handle_reseller_percent_message: INSERT OR REPLACE the percentage of the
\* target user and log the action.
handle_reseller_percent_message(u, pct) ==
    /\ UNCHANGED more
    /\ ResellerEdits < MaxResellerEdits
    /\ users' = [users EXCEPT ![u].discount_percentage = pct]
    /\ audit' = Append(audit, [user_id |-> u, amount_change |-> 0,
                               reason |-> "reseller_discount", order |-> 0])
    /\ last' = NoLast
    /\ UNCHANGED <<products, user_data, discount_codes, purchases,
                   solana_wallets, pending_deposits, chain, transfers,
                   treasury, now, nextOrder, scanPc, scanQueue, sweepTasks,
                   retries, settled, commits, sold, released, lateInflow>>

\* units of each product in stock before the two buyers reserve
SettleStockOf(p) == InitStockOf(p) + 1

\* Two buyers have reserved their baskets, have each been invoiced at the
\* quote in force and have each paid the expected amount to their address;
\* neither payment has been seen by a scan yet.
SettleInit ==
    /\ \E b \in [Buyers -> InitBaskets], code \in [Buyers -> Codes \cup {NoCode}],
          r \in BOOLEAN, q \in Quotes :
          /\ \A p \in Products :
                CountIn(b[1], p) + CountIn(b[2], p) <= SettleStockOf(p)
          /\ users = [u \in Buyers |->
                        [balance |-> 0, total_purchases |-> 0, basket |-> b[u],
                         is_reseller |-> (u = 1 /\ r), discount_percentage |-> 0]]
          /\ products = ReserveAll(
                [p \in Products |->
                    [exists |-> TRUE, available |-> SettleStockOf(p),
                     reserved |-> 0]], b[1] \o b[2])
          /\ pending_deposits = [o \in Buyers |->
                [present |-> TRUE, user_id |-> o, is_purchase |-> TRUE,
                 snapshot |-> BasketSnapshot(b[o]), discount_code |-> code[o],
                 target_eur |-> ApplyCoupon(code[o],
                                            SumPrices(BasketSnapshot(b[o]))),
                 created_at |-> 0]]
          /\ solana_wallets = [o \in Buyers |->
                [status |-> "pending", user_id |-> o, public_key |-> o,
                 private_key |-> o,
                 expected |-> ExpectedSol(
                     ApplyCoupon(code[o], SumPrices(BasketSnapshot(b[o]))), q),
                 amount_received |-> 0, created_at |-> 0]]
          /\ chain = [o \in Buyers |->
                ExpectedSol(ApplyCoupon(code[o],
                                        SumPrices(BasketSnapshot(b[o]))), q)
                   * LAMPORTS_PER_UNIT]
    /\ user_data = [u \in Buyers |-> NoUserData]
    /\ discount_codes = [c \in Codes |-> [uses_count |-> 0, max_uses |-> 1]]
    /\ purchases = <<>>
    /\ transfers = [o \in Buyers |-> 1]
    /\ treasury = 0
    /\ audit = <<>>
    /\ now = 0
    /\ nextOrder = 3
    /\ scanPc = "idle"
    /\ scanQueue = <<>>
    /\ sweepTasks = {}
    /\ retries = [o \in Buyers |-> 0]
    /\ settled = [o \in Buyers |-> 0]
    /\ commits = [o \in Buyers |-> 0]
    /\ sold = [p \in Products |-> 0]
    /\ released = [o \in Buyers |-> "no"]
    /\ lateInflow = [o \in Buyers |-> 0]
    /\ last = NoLast
    /\ Quiet

\* deliveries that go through, and deliveries whose pickup text raises
SettleDeliveries == {{}, {"text"}}

SettleNext ==
    \/ check_solana_deposits_begin
    \/ \E q \in Quotes, d \in SettleDeliveries :
          check_solana_deposits_wallet(q, d)
    \/ check_solana_deposits_recovery
    \/ \E o \in Buyers, d \in SettleDeliveries :
          retry_purchase_finalization(o, d)
    \/ \E o \in Buyers : handle_cancel_crypto_payment(o)
    \/ \E u \in Buyers : handle_reseller_toggle_status(u)
    \/ \E u \in Buyers, pct \in ResellerPercents :
          handle_reseller_percent_message(u, pct)

SettleSpec == SettleInit /\ [][SettleNext]_vars

\* ------------------------------------------- choosing how to pay a basket
\* balances, in cents, the user may hold from earlier refills
PayBalances == {0, 900, 2000}

\* The user holds a reserved basket and a balance from an earlier refill,
\* and has entered the payment flow; the coupon stored with the basket may
\* since have been used up by another buyer.
PayInit ==
    /\ \E b \in InitBaskets, code \in Codes \cup {NoCode},
          gone \in {{}, {2}}, used \in {0, 1}, bal \in PayBalances :
          /\ gone \subseteq {b[i] : i \in 1..Len(b)}
          /\ used = 1 => code # NoCode
          /\ users = [u \in Users |->
                        [balance |-> bal, total_purchases |-> 0, basket |-> b,
                         is_reseller |-> FALSE, discount_percentage |-> 0]]
          /\ audit = IF bal = 0 THEN <<>>
                     ELSE <<[user_id |-> 1, amount_change |-> bal,
                             reason |-> "Refill payment", order |-> 0]>>
          /\ user_data = [u \in Users |->
                        [state |-> "awaiting_payment",
                         basket_pay_snapshot |-> BasketSnapshot(b),
                         basket_pay_discount_code |-> code]]
          /\ products = InitProducts(b, gone)
          /\ discount_codes = [c \in Codes |->
                                 [uses_count |-> used, max_uses |-> 1]]
    /\ purchases = <<>>
    /\ solana_wallets = [o \in OrderIds |-> NoWallet]
    /\ pending_deposits = [o \in OrderIds |-> NoDeposit]
    /\ chain = [o \in OrderIds |-> 0]
    /\ transfers = [o \in OrderIds |-> 0]
    /\ treasury = 0
    /\ now = 0
    /\ nextOrder = 1
    /\ scanPc = "idle"
    /\ scanQueue = <<>>
    /\ sweepTasks = {}
    /\ retries = [o \in OrderIds |-> 0]
    /\ settled = [o \in OrderIds |-> 0]
    /\ commits = [o \in OrderIds |-> 0]
    /\ sold = [p \in Products |-> 0]
    /\ released = [o \in OrderIds |-> "no"]
    /\ lateInflow = [o \in OrderIds |-> 0]
    /\ last = NoLast
    /\ Quiet

PayNext ==
    \/ \E u \in Users, q \in QuoteInputs, insertOk \in BOOLEAN,
          addOk \in BOOLEAN :
          handle_select_basket_crypto_db(u, q, insertOk, addOk)
    \/ \E u \in Users, d \in DeliveryInputs :
          process_purchase_with_balance(u, d)
    \/ \E o \in OrderIds : handle_cancel_crypto_payment(o)
    \/ Tick

PaySpec == PayInit /\ [][PayNext]_vars

\* handle_select_basket_crypto up to its first await: the stored context is
\* read into locals; a lost context ends the callback.
handle_select_basket_crypto_begin(cb, u) ==
    /\ callbacks[cb].pc = "idle"
    /\ IF user_data[u].state # "awaiting_payment"
       THEN /\ callbacks' = [callbacks EXCEPT ![cb].pc = "done"]
            /\ user_data' = [user_data EXCEPT ![u] = NoUserData]
            /\ last' = [NoLast EXCEPT !.kind = "context_lost"]
       ELSE /\ callbacks' = [callbacks EXCEPT ![cb] =
                  [pc |-> "awaiting", user_id |-> u,
                   basket_snapshot |-> user_data[u].basket_pay_snapshot,
                   discount_code_used |->
                       user_data[u].basket_pay_discount_code]]
            /\ UNCHANGED user_data
            /\ last' = NoLast
    /\ UNCHANGED <<products, users, discount_codes, purchases, solana_wallets,
                   pending_deposits, chain, transfers, treasury, audit, now,
                   nextOrder, scanPc, scanQueue, sweepTasks, retries, settled,
                   commits, sold, released, lateInflow, _price_cache,
                   bot_settings, clock, recovery_funds, recover_job,
                   retry_job, admin_inbox, reseller_discounts, reseller_mgmt,
                   paid_seen, price_origin>>

\* The rest of handle_select_basket_crypto, once the loop resumes it: the
\* invoice is made from the locals, the context is cleared, and for
\* estimate_failed the snapshot read back from the context is un-reserved.
handle_select_basket_crypto_resume(cb, quote, insertOk, addOk) ==
    /\ callbacks[cb].pc = "awaiting"
    /\ nextOrder \in DOMAIN solana_wallets
    /\ LET u == callbacks[cb].user_id
           snapshot == callbacks[cb].basket_snapshot
           code == callbacks[cb].discount_code_used
           total == ApplyCoupon(code, SumPrices(snapshot))
           res == create_nowpayments_payment_db(u, total, TRUE, snapshot,
                                                code, quote, insertOk, addOk)
           snapshot_before_clear == user_data[u].basket_pay_snapshot
       IN  /\ solana_wallets' = res.wallets
           /\ pending_deposits' = res.deposits
           /\ nextOrder' = IF res.wallets # solana_wallets THEN nextOrder + 1
                           ELSE nextOrder
           /\ products' = IF res.error = "estimate_failed"
                          THEN _unreserve_basket_items(products,
                                                       snapshot_before_clear)
                          ELSE products
           /\ user_data' = [user_data EXCEPT ![u] = NoUserData]
           /\ last' = [NoLast EXCEPT !.kind = "invoice", !.quote = quote,
                                     !.finalize = res.error]
    /\ callbacks' = [callbacks EXCEPT ![cb].pc = "done"]
    /\ UNCHANGED <<users, discount_codes, purchases, chain, transfers,
                   treasury, audit, now, scanPc, scanQueue, sweepTasks,
                   retries, settled, commits, sold, released, lateInflow,
                   _price_cache, bot_settings, clock, recovery_funds,
                   recover_job, retry_job, admin_inbox, reseller_discounts,
                   reseller_mgmt, paid_seen, price_origin>>

\* The user holds a reserved basket and has entered the payment flow; no
\* invoice exists yet, and two order ids can still be handed out.
ClickInit ==
    /\ \E b \in InitBaskets, code \in Codes \cup {NoCode},
          gone \in {{}, {2}}, used \in {0, 1} :
          /\ gone \subseteq {b[i] : i \in 1..Len(b)}
          /\ used = 1 => code # NoCode
          /\ users = [u \in Users |->
                        [balance |-> 0, total_purchases |-> 0, basket |-> b,
                         is_reseller |-> FALSE, discount_percentage |-> 0]]
          /\ user_data = [u \in Users |->
                        [state |-> "awaiting_payment",
                         basket_pay_snapshot |-> BasketSnapshot(b),
                         basket_pay_discount_code |-> code]]
          /\ products = InitProducts(b, gone)
          /\ discount_codes = [c \in Codes |->
                                 [uses_count |-> used, max_uses |-> 1]]
    /\ audit = <<>>
    /\ purchases = <<>>
    /\ solana_wallets = [o \in Buyers |-> NoWallet]
    /\ pending_deposits = [o \in Buyers |-> NoDeposit]
    /\ chain = [o \in Buyers |-> 0]
    /\ transfers = [o \in Buyers |-> 0]
    /\ treasury = 0
    /\ now = 0
    /\ nextOrder = 1
    /\ scanPc = "idle"
    /\ scanQueue = <<>>
    /\ sweepTasks = {}
    /\ retries = [o \in Buyers |-> 0]
    /\ settled = [o \in Buyers |-> 0]
    /\ commits = [o \in Buyers |-> 0]
    /\ sold = [p \in Products |-> 0]
    /\ released = [o \in Buyers |-> "no"]
    /\ lateInflow = [o \in Buyers |-> 0]
    /\ last = NoLast
    /\ Quiet

\* Each update is handed to the event loop as a task of its own, and the
\* handlers do not block one another: the callbacks interleave at awaits.
ClickNext ==
    \/ \E cb \in Callbacks, u \in Users :
          handle_select_basket_crypto_begin(cb, u)
    \/ \E cb \in Callbacks, q \in QuoteInputs, insertOk \in BOOLEAN,
          addOk \in BOOLEAN :
          handle_select_basket_crypto_resume(cb, q, insertOk, addOk)

ClickSpec == ClickInit /\ [][ClickNext]_vars

\* ------------------------------------------------- a paid wallet is swept
\* lamports of an inflow that reaches the address after the payment
SweepAmounts == {SWEEP_FEE - 1, SWEEP_FEE, SWEEP_FEE + 1}

\* lamports paid per 10^-5 SOL expected: in full, or at the tolerance
SweepPayments == {LAMPORTS_PER_UNIT, TOLERANCE_PER_10K}

\* A refill invoice has been paid on chain; no scan has seen it yet.
SweepInit ==
    /\ \E a \in RefillAmounts, q \in Quotes, paid \in SweepPayments :
          /\ solana_wallets = [o \in OrderIds |->
                [status |-> "pending", user_id |-> 1, public_key |-> o,
                 private_key |-> o,
                 expected |-> ExpectedSol(a, q), amount_received |-> 0,
                 created_at |-> 0]]
          /\ pending_deposits = [o \in OrderIds |->
                [present |-> TRUE, user_id |-> 1, is_purchase |-> FALSE,
                 snapshot |-> <<>>, discount_code |-> NoCode,
                 target_eur |-> a, created_at |-> 0]]
          /\ chain = [o \in OrderIds |-> ExpectedSol(a, q) * paid]
    /\ users = [u \in Users |->
                  [balance |-> 0, total_purchases |-> 0, basket |-> <<>>,
                   is_reseller |-> FALSE, discount_percentage |-> 0]]
    /\ user_data = [u \in Users |-> NoUserData]
    /\ products = InitProducts(<<>>, {})
    /\ discount_codes = [c \in Codes |-> [uses_count |-> 0, max_uses |-> 1]]
    /\ purchases = <<>>
    /\ transfers = [o \in OrderIds |-> 1]
    /\ treasury = 0
    /\ audit = <<>>
    /\ now = 0
    /\ nextOrder = 2
    /\ scanPc = "idle"
    /\ scanQueue = <<>>
    /\ sweepTasks = {}
    /\ retries = [o \in OrderIds |-> 0]
    /\ settled = [o \in OrderIds |-> 0]
    /\ commits = [o \in OrderIds |-> 0]
    /\ sold = [p \in Products |-> 0]
    /\ released = [o \in OrderIds |-> "no"]
    /\ lateInflow = [o \in OrderIds |-> 0]
    /\ last = NoLast
    /\ Quiet

\* A further on-chain transfer to the address, after the payment.
FurtherInflow(o, amount) ==
    /\ UNCHANGED more
    /\ solana_wallets[o].status # "none"
    /\ transfers[o] < MaxTransfers + 1
    /\ chain' = [chain EXCEPT ![o] = @ + amount]
    /\ transfers' = [transfers EXCEPT ![o] = @ + 1]
    /\ last' = NoLast
    /\ UNCHANGED <<products, users, user_data, discount_codes, purchases,
                   solana_wallets, pending_deposits, treasury, audit, now,
                   nextOrder, scanPc, scanQueue, sweepTasks, retries, settled,
                   commits, sold, released, lateInflow>>

SweepNext ==
    \/ check_solana_deposits_begin
    \/ check_solana_deposits_rpc_error
    \/ \E q \in QuoteInputs : check_solana_deposits_wallet(q, {})
    \/ check_solana_deposits_recovery
    \/ \E t \in sweepTasks, rpcOk \in BOOLEAN : sweep_wallet(t, rpcOk)
    \/ \E o \in OrderIds, a \in SweepAmounts : FurtherInflow(o, a)

SweepSpec == SweepInit /\ [][SweepNext]_vars

\* ------------------------------------------------- minting, called again
\* order ids create_solana_payment is called with, and the EUR amounts
MintOrders == {1, 2}
MintAmounts == {1000, 2000}
\* prices, in whole EUR per SOL, the oracle answers with
MintQuotes == {200, 300}

\* No invoice has been made yet.
MintInit ==
    /\ users = [u \in Users |->
                  [balance |-> 0, total_purchases |-> 0, basket |-> <<>>,
                   is_reseller |-> FALSE, discount_percentage |-> 0]]
    /\ user_data = [u \in Users |-> NoUserData]
    /\ products = InitProducts(<<>>, {})
    /\ discount_codes = [c \in Codes |-> [uses_count |-> 0, max_uses |-> 1]]
    /\ purchases = <<>>
    /\ solana_wallets = [o \in MintOrders |-> NoWallet]
    /\ pending_deposits = [o \in MintOrders |-> NoDeposit]
    /\ chain = [o \in MintOrders |-> 0]
    /\ transfers = [o \in MintOrders |-> 0]
    /\ treasury = 0
    /\ audit = <<>>
    /\ now = 0
    /\ nextOrder = 1
    /\ scanPc = "idle"
    /\ scanQueue = <<>>
    /\ sweepTasks = {}
    /\ retries = [o \in MintOrders |-> 0]
    /\ settled = [o \in MintOrders |-> 0]
    /\ commits = [o \in MintOrders |-> 0]
    /\ sold = [p \in Products |-> 0]
    /\ released = [o \in MintOrders |-> "no"]
    /\ lateInflow = [o \in MintOrders |-> 0]
    /\ last = NoLast
    /\ Quiet

\* One call of create_solana_payment(user_id, order_id, eur_amount); what it
\* returns is left in last.
create_solana_payment_call(u, o, eur_cents, quote) ==
    /\ UNCHANGED more
    /\ LET res == create_solana_payment(solana_wallets, u, o, eur_cents, quote)
       IN  /\ solana_wallets' = res.wallets
           /\ last' = [NoLast EXCEPT !.kind = "mint", !.order = o,
                                     !.quote = quote, !.finalize = res.error,
                                     !.eur = eur_cents,
                                     !.pay_address = res.pay_address,
                                     !.pay_amount = res.pay_amount]
    /\ UNCHANGED <<products, users, user_data, discount_codes, purchases,
                   pending_deposits, chain, transfers, treasury, audit, now,
                   nextOrder, scanPc, scanQueue, sweepTasks, retries, settled,
                   commits, sold, released, lateInflow>>

MintNext ==
    \/ \E u \in Users, o \in MintOrders, a \in MintAmounts,
          q \in MintQuotes \cup {NoQuote} :
          create_solana_payment_call(u, o, a, q)
    \/ Tick

MintSpec == MintInit /\ [][MintNext]_vars

\* ------------------------------------------------ stuck funds recovery
\* sol_balance > Decimal("0.0001"), in lamports
STUCK_MIN_LAMPORTS == 100000

\* A search that takes every funded wallet, whatever its key.
find_stuck_wallets_unvalidated(wallets, ch, failed) ==
    {[order |-> o, lamports |-> ch[o]] :
        o \in {x \in DOMAIN wallets :
                  /\ wallets[x].status # "none"
                  /\ x \notin failed
                  /\ ch[x] > STUCK_MIN_LAMPORTS}}

\* find_stuck_wallets: every row, whatever its status, whose stored key
\* loads and derives the recorded address, whose balance could be read
\* (failed: the rows whose read raised) and exceeds 0.0001 SOL.
find_stuck_wallets(wallets, ch, failed) ==
    {[order |-> o, lamports |-> ch[o]] :
        o \in {x \in DOMAIN wallets :
                  /\ wallets[x].status # "none"
                  /\ KeyLoads(wallets[x].private_key)
                  /\ wallets[x].private_key = wallets[x].public_key
                  /\ x \notin failed
                  /\ ch[x] > STUCK_MIN_LAMPORTS}}

\* target_wallet = RECOVERY_WALLET or ADMIN_WALLET when none is given
TargetWallet(target_wallet, recovery_wallet_set) ==
    IF target_wallet # "none" THEN target_wallet
    ELSE IF recovery_wallet_set THEN "recovery"
    ELSE "admin"

\* the orders in which the rows of S can come back
RECURSIVE Orderings(_)
Orderings(S) ==
    IF S = {} THEN {<<>>}
    ELSE UNION {{<<x>> \o s : s \in Orderings(S \ {x})} : x \in S}

\* recover_stuck_funds up to its loop: resolve the target and search.  Rows
\* of equal created_at come back in either order.
recover_stuck_funds_begin(target_wallet, failed) ==
    /\ UNCHANGED extra
    /\ recover_job.pc = "idle"
    /\ recover_job.calls < MaxRecoverCalls
    /\ \E stuck \in Orderings(find_stuck_wallets(solana_wallets, chain,
                                                  failed)) :
          recover_job' =
             [recover_job EXCEPT
                 !.pc = IF stuck = <<>> THEN "idle" ELSE "loop",
                 !.target = TargetWallet(target_wallet,
                                         recover_job.recovery_wallet),
                 !.stuck = stuck,
                 !.calls = @ + 1]
    /\ last' = [NoLast EXCEPT !.kind = "find", !.failed = failed,
                              !.target = target_wallet]
    /\ UNCHANGED <<products, users, user_data, discount_codes, purchases,
                   solana_wallets, pending_deposits, chain, transfers,
                   treasury, audit, now, nextOrder, scanPc, scanQueue,
                   sweepTasks, retries, settled, commits, sold, released,
                   lateInflow, _price_cache, bot_settings, clock,
                   recovery_funds>>

\* A transfer of `amount` lamports arrives at the target wallet.
TreasuryAfter(target, amount) ==
    IF target = "admin" THEN treasury + amount ELSE treasury

RecoveryFundsAfter(target, amount) ==
    IF target = "admin" THEN recovery_funds
    ELSE [recovery_funds EXCEPT ![target] = @ + amount]

\* One pass of the loop of recover_stuck_funds, for the wallet found with
\* `lamports`: sign with the stored key, send lamports - fee to the target
\* and mark the row 'swept'.  A send that raises leaves the row as it was.
recover_stuck_funds_wallet(rpcOk) ==
    /\ UNCHANGED extra
    /\ recover_job.pc = "loop"
    /\ LET info == Head(recover_job.stuck)
           o == info.order
           kp == solana_wallets[o].private_key
           amount_to_send == AmountToSend(info.lamports)
           sent == /\ KeyLoads(kp)
                   /\ amount_to_send > 0
                   /\ rpcOk
                   /\ chain[AddressOwner(solana_wallets, kp)] >= info.lamports
       IN  /\ IF sent
              THEN /\ chain' = [chain EXCEPT
                         ![AddressOwner(solana_wallets, kp)] =
                             @ - info.lamports]
                   /\ treasury' = TreasuryAfter(recover_job.target,
                                                amount_to_send)
                   /\ recovery_funds' = RecoveryFundsAfter(recover_job.target,
                                                           amount_to_send)
                   /\ solana_wallets' = [solana_wallets EXCEPT
                         ![o].status = "swept",
                         ![o].amount_received = info.lamports]
              ELSE UNCHANGED <<chain, treasury, recovery_funds,
                               solana_wallets>>
           /\ last' = [NoLast EXCEPT !.kind = "recover", !.order = o,
                                     !.ret = sent,
                                     !.failed = IF rpcOk THEN {}
                                                ELSE {"rpc"}]
    /\ recover_job' = [recover_job EXCEPT
                          !.stuck = Tail(@),
                          !.pc = IF Tail(recover_job.stuck) = <<>>
                                 THEN "idle" ELSE "loop"]
    /\ UNCHANGED <<products, users, user_data, discount_codes, purchases,
                   pending_deposits, transfers, audit, now, nextOrder,
                   scanPc, scanQueue, sweepTasks, retries, settled, commits,
                   sold, released, lateInflow, _price_cache, bot_settings,
                   clock>>

\* recover_single_wallet(wallet_address, target_wallet) for the address of
\* row o; it has no await and loads the stored key without comparing it with
\* the recorded address.
recover_single_wallet(o, target_wallet, rpcOk) ==
    /\ UNCHANGED extra
    /\ solana_wallets[o].status # "none"
    /\ recover_job.calls < MaxRecoverCalls
    /\ recover_job' = [recover_job EXCEPT !.calls = @ + 1]
    /\ LET target == TargetWallet(target_wallet, recover_job.recovery_wallet)
           lamports == chain[o]
           kp == solana_wallets[o].private_key
           amount_to_send == AmountToSend(lamports)
           sent == /\ rpcOk
                   /\ lamports > STUCK_MIN_LAMPORTS
                   /\ KeyLoads(kp)
                   /\ amount_to_send > 0
                   /\ chain[AddressOwner(solana_wallets, kp)] >= lamports
       IN  /\ IF sent
              THEN /\ chain' = [chain EXCEPT
                         ![AddressOwner(solana_wallets, kp)] = @ - lamports]
                   /\ treasury' = TreasuryAfter(target, amount_to_send)
                   /\ recovery_funds' = RecoveryFundsAfter(target,
                                                           amount_to_send)
                   /\ solana_wallets' = [solana_wallets EXCEPT
                         ![o].status = "swept",
                         ![o].amount_received = lamports]
              ELSE UNCHANGED <<chain, treasury, recovery_funds,
                               solana_wallets>>
           /\ last' = [NoLast EXCEPT !.kind = "recover_single", !.order = o,
                                     !.ret = sent, !.target = target_wallet,
                                     !.failed = IF rpcOk THEN {}
                                                ELSE {"rpc"}]
    /\ UNCHANGED <<products, users, user_data, discount_codes, purchases,
                   pending_deposits, transfers, audit, now, nextOrder,
                   scanPc, scanQueue, sweepTasks, retries, settled, commits,
                   sold, released, lateInflow, _price_cache, bot_settings,
                   clock>>

\* what the first wallet's row can look like when the operator looks
RecoverStatuses == {"pending", "paid", "swept", "expired", "refunded"}
\* lamports the first address may hold
RecoverBalances ==
    {0, STUCK_MIN_LAMPORTS, STUCK_MIN_LAMPORTS + 1, 100000000}
\* the stored key of the first wallet: its own, unreadable bytes, or the
\* key of the second wallet
RecoverKeys == {1, 0, 2}

\* Two refill invoices of 20.00 EUR at 200 EUR/SOL.  The second is pending
\* and paid or not; the first is in any status, with any of the balances and
\* stored keys.
RecoverInit ==
    /\ users = [u \in Users |->
                  [balance |-> 0, total_purchases |-> 0, basket |-> <<>>,
                   is_reseller |-> FALSE, discount_percentage |-> 0]]
    /\ user_data = [u \in Users |-> NoUserData]
    /\ products = InitProducts(<<>>, {})
    /\ discount_codes = [c \in Codes |-> [uses_count |-> 0, max_uses |-> 1]]
    /\ purchases = <<>>
    /\ \E st \in RecoverStatuses, k \in RecoverKeys, b1 \in RecoverBalances,
          b2 \in {0, 100000000}, cfg \in BOOLEAN :
          /\ solana_wallets = [o \in Buyers |->
                [status |-> IF o = 1 THEN st ELSE "pending",
                 user_id |-> 1, public_key |-> o,
                 private_key |-> IF o = 1 THEN k ELSE o,
                 expected |-> ExpectedSol(2000, 200),
                 amount_received |-> 0, created_at |-> 0]]
          /\ pending_deposits = [o \in Buyers |->
                IF o = 1 /\ st # "pending" THEN NoDeposit
                ELSE [present |-> TRUE, user_id |-> 1, is_purchase |-> FALSE,
                      snapshot |-> <<>>, discount_code |-> NoCode,
                      target_eur |-> 2000, created_at |-> 0]]
          /\ chain = [o \in Buyers |-> IF o = 1 THEN b1 ELSE b2]
          /\ transfers = [o \in Buyers |->
                            IF chain[o] > 0 THEN 1 ELSE 0]
          /\ recover_job = [NoRecoverJob EXCEPT !.recovery_wallet = cfg]
    /\ treasury = 0
    /\ audit = <<>>
    /\ now = 0
    /\ nextOrder = 3
    /\ scanPc = "idle"
    /\ scanQueue = <<>>
    /\ sweepTasks = {}
    /\ retries = [o \in Buyers |-> 0]
    /\ settled = [o \in Buyers |-> 0]
    /\ commits = [o \in Buyers |-> 0]
    /\ sold = [p \in Products |-> 0]
    /\ released = [o \in Buyers |-> "no"]
    /\ lateInflow = [o \in Buyers |-> 0]
    /\ last = NoLast
    /\ _price_cache = NoPriceCache
    /\ bot_settings = NoSetting
    /\ clock = 0
    /\ recovery_funds = [t \in RecoveryTargets |-> 0]
    /\ retry_job = NoRetryJob
    /\ admin_inbox = {}
    /\ reseller_discounts = <<>>
    /\ reseller_mgmt = NoResellerMgmt
    /\ paid_seen = {o \in Buyers : solana_wallets[o].status \in {"paid", "swept"}}
    /\ price_origin = NoOrigin
    /\ callbacks = NoCallbacks

\* check_payment_status on the stored row: 'confirmed' for a row marked paid
\* or swept, 'waiting' for a pending one, else the status itself.  The row
\* comes from a connection made outside this code: if its rows have no
\* .get, reading amount_received raises and an error is reported.
check_payment_status(wallets, o, rowHasGet) ==
    IF wallets[o].status = "none" THEN "payment_not_found"
    ELSE IF wallets[o].status \in {"paid", "swept"}
    THEN (IF rowHasGet THEN "confirmed" ELSE "error")
    ELSE IF wallets[o].status = "pending" THEN "waiting"
    ELSE wallets[o].status

\* One call of check_payment_status for order o.
check_payment_status_call(o, rowHasGet) ==
    /\ UNCHANGED more
    /\ last' = [NoLast EXCEPT
                   !.kind = "status", !.order = o,
                   !.finalize = check_payment_status(solana_wallets, o,
                                                     rowHasGet)]
    /\ UNCHANGED <<products, users, user_data, discount_codes, purchases,
                   solana_wallets, pending_deposits, chain, transfers,
                   treasury, audit, now, nextOrder, scanPc, scanQueue,
                   sweepTasks, retries, settled, commits, sold, released,
                   lateInflow>>

RecoverNext ==
    \/ \E target \in {"none", "operator"}, failed \in SUBSET Buyers :
          recover_stuck_funds_begin(target, failed)
    \/ \E rpcOk \in BOOLEAN : recover_stuck_funds_wallet(rpcOk)
    \/ \E o \in Buyers, target \in {"none", "operator"}, rpcOk \in BOOLEAN :
          recover_single_wallet(o, target, rpcOk)
    \/ check_solana_deposits_begin
    \/ \E q \in Quotes : check_solana_deposits_wallet(q, {})
    \/ check_solana_deposits_recovery
    \/ \E t \in sweepTasks, rpcOk \in BOOLEAN : sweep_wallet(t, rpcOk)

RecoverSpec == RecoverInit /\ [][RecoverNext]_vars

\* lamports an invoice address may hold: nothing, half the invoice, all of it
StatusBalances == {0, 50000000, 100000000}

\* Two pending refill invoices of 20.00 EUR at 200 EUR/SOL, each unpaid,
\* half paid or paid in full.
StatusInit ==
    /\ users = [u \in Users |->
                  [balance |-> 0, total_purchases |-> 0, basket |-> <<>>,
                   is_reseller |-> FALSE, discount_percentage |-> 0]]
    /\ user_data = [u \in Users |-> NoUserData]
    /\ products = InitProducts(<<>>, {})
    /\ discount_codes = [c \in Codes |-> [uses_count |-> 0, max_uses |-> 1]]
    /\ purchases = <<>>
    /\ solana_wallets = [o \in Buyers |->
          [status |-> "pending", user_id |-> 1, public_key |-> o,
           private_key |-> o, expected |-> ExpectedSol(2000, 200),
           amount_received |-> 0, created_at |-> 0]]
    /\ pending_deposits = [o \in Buyers |->
          [present |-> TRUE, user_id |-> 1, is_purchase |-> FALSE,
           snapshot |-> <<>>, discount_code |-> NoCode,
           target_eur |-> 2000, created_at |-> 0]]
    /\ chain \in [Buyers -> StatusBalances]
    /\ transfers = [o \in Buyers |-> IF chain[o] > 0 THEN 1 ELSE 0]
    /\ recover_job = [NoRecoverJob EXCEPT !.recovery_wallet = TRUE]
    /\ treasury = 0
    /\ audit = <<>>
    /\ now = 0
    /\ nextOrder = 3
    /\ scanPc = "idle"
    /\ scanQueue = <<>>
    /\ sweepTasks = {}
    /\ retries = [o \in Buyers |-> 0]
    /\ settled = [o \in Buyers |-> 0]
    /\ commits = [o \in Buyers |-> 0]
    /\ sold = [p \in Products |-> 0]
    /\ released = [o \in Buyers |-> "no"]
    /\ lateInflow = [o \in Buyers |-> 0]
    /\ last = NoLast
    /\ _price_cache = NoPriceCache
    /\ bot_settings = NoSetting
    /\ clock = 0
    /\ recovery_funds = [t \in RecoveryTargets |-> 0]
    /\ retry_job = NoRetryJob
    /\ admin_inbox = {}
    /\ reseller_discounts = <<>>
    /\ reseller_mgmt = NoResellerMgmt
    /\ paid_seen = {}
    /\ price_origin = NoOrigin
    /\ callbacks = NoCallbacks

\* The scanner, its sweep tasks, the operator's single-wallet recovery and
\* status queries, in any order.
StatusNext ==
    \/ check_solana_deposits_begin
    \/ \E q \in Quotes : check_solana_deposits_wallet(q, {})
    \/ check_solana_deposits_recovery
    \/ \E t \in sweepTasks, rpcOk \in BOOLEAN : sweep_wallet(t, rpcOk)
    \/ \E o \in Buyers, target \in {"none", "operator"}, rpcOk \in BOOLEAN :
          recover_single_wallet(o, target, rpcOk)
    \/ \E o \in Buyers, rowHasGet \in BOOLEAN :
          check_payment_status_call(o, rowHasGet)

StatusSpec == StatusInit /\ [][StatusNext]_vars

\* ------------------------------------------------------ the price oracle
PRICE_CACHE_TTL == 300
DB_CACHE_TTL == 600
STALE_CACHE_MAX_AGE == 3600
\* prices, in whole EUR per SOL, the upstream sources answer with
OraclePrices == {190, 200}
\* moments, in seconds, at which the oracle is looked at
ClockPoints == {299, 300, 599, 600, 3599, 3600, 3601, 3900}

\* A database cache read that takes the stored price whatever its age.
get_sol_price_from_db_any_age(setting, t, dbRead) ==
    IF dbRead /\ setting.present THEN setting.price ELSE NoQuote

\* get_sol_price_from_db: the stored price while it is under ten minutes
\* old; a read that raises gives None.
get_sol_price_from_db(setting, t, dbRead) ==
    IF dbRead /\ setting.present /\ t - setting.updated_at < DB_CACHE_TTL
    THEN setting.price
    ELSE NoQuote

\* save_sol_price_to_db: INSERT OR REPLACE; a write that raises is swallowed.
save_sol_price_to_db(setting, price, t, dbWrite) ==
    IF dbWrite THEN [present |-> TRUE, price |-> price, updated_at |-> t]
    ELSE setting

\* A stale cache that is still accepted at exactly one hour.
StaleUsableInclusive(age) == age <= STALE_CACHE_MAX_AGE

\* if age < STALE_CACHE_MAX_AGE
StaleUsable(age) == age < STALE_CACHE_MAX_AGE

\* get_sol_price_eur at time t: memory cache, database cache, the upstream
\* sources (upstream is what they yield, NoQuote when every one of them
\* fails), then the stale memory cache.  `asked` lists the layers consulted,
\* in the order of the consultations.
get_sol_price_eur(cache, setting, t, upstream, dbRead, dbWrite) ==
    IF cache.price # 0 /\ t - cache.timestamp < PRICE_CACHE_TTL
    THEN [ret |-> cache.price, layer |-> "memory", cache |-> cache,
          setting |-> setting, asked |-> <<"memory">>]
    ELSE LET db_price == get_sol_price_from_db(setting, t, dbRead)
         IN  IF db_price # NoQuote
             THEN [ret |-> db_price, layer |-> "db",
                   cache |-> [price |-> db_price, timestamp |-> t],
                   setting |-> setting, asked |-> <<"memory", "db">>]
             ELSE IF upstream # NoQuote
             THEN [ret |-> upstream, layer |-> "api",
                   cache |-> [price |-> upstream, timestamp |-> t],
                   setting |-> save_sol_price_to_db(setting, upstream, t,
                                                    dbWrite),
                   asked |-> <<"memory", "db", "api">>]
             ELSE IF cache.price # 0 /\ StaleUsable(t - cache.timestamp)
             THEN [ret |-> cache.price, layer |-> "stale", cache |-> cache,
                   setting |-> setting, asked |-> <<"memory", "db", "api">>]
             ELSE [ret |-> NoQuote, layer |-> "none", cache |-> cache,
                   setting |-> setting, asked |-> <<"memory", "db", "api">>]

\* Where the cached prices come from after a call that ended in `res`: a
\* database hit copies the stored price into memory, an upstream answer
\* fills the memory cache and, if the write went through, the database.
OriginAfter(origin, res, t) ==
    IF res.layer = "db" THEN [origin EXCEPT !.memory = origin.db]
    ELSE IF res.layer = "api"
    THEN [memory |-> t,
          db |-> IF res.setting.present /\ res.setting.updated_at = t
                 THEN t ELSE origin.db]
    ELSE origin

\* The database faults of one call: a read that raises, a write that raises.
DbFaults(dbRead, dbWrite) ==
    (IF dbRead THEN {} ELSE {"db_read"})
       \cup (IF dbWrite THEN {} ELSE {"db_write"})

\* One call of get_sol_price_eur by any of its callers.
get_sol_price_eur_call(upstream, dbRead, dbWrite) ==
    /\ UNCHANGED <<retry_job, admin_inbox, reseller_discounts, reseller_mgmt,
                   paid_seen, callbacks>>
    /\ LET res == get_sol_price_eur(_price_cache, bot_settings, clock,
                                    upstream, dbRead, dbWrite)
       IN  /\ _price_cache' = res.cache
           /\ bot_settings' = res.setting
           /\ price_origin' = OriginAfter(price_origin, res, clock)
           /\ last' = [NoLast EXCEPT !.kind = "price", !.quote = res.ret,
                                     !.finalize = res.layer,
                                     !.upstream = upstream,
                                     !.failed = DbFaults(dbRead, dbWrite),
                                     !.asked = res.asked]
    /\ UNCHANGED <<products, users, user_data, discount_codes, purchases,
                   solana_wallets, pending_deposits, chain, transfers,
                   treasury, audit, now, nextOrder, scanPc, scanQueue,
                   sweepTasks, retries, settled, commits, sold, released,
                   lateInflow, clock, recovery_funds, recover_job>>

\* A refresh that leaves the zeroed timestamp in place.
RestoreTimestampNever(cache, price, old_timestamp) == cache

\* if price: ... else: _price_cache['timestamp'] = old_timestamp
RestoreTimestamp(cache, price, old_timestamp) ==
    IF price # NoQuote THEN cache
    ELSE [cache EXCEPT !.timestamp = old_timestamp]

\* refresh_price_cache, the background job: the timestamp is zeroed so that
\* the memory layer is skipped, and put back when no price came.
refresh_price_cache(upstream, dbRead, dbWrite) ==
    /\ UNCHANGED <<retry_job, admin_inbox, reseller_discounts, reseller_mgmt,
                   paid_seen, callbacks>>
    /\ LET old_timestamp == _price_cache.timestamp
           res == get_sol_price_eur([_price_cache EXCEPT !.timestamp = 0],
                                    bot_settings, clock, upstream, dbRead,
                                    dbWrite)
       IN  /\ _price_cache' = RestoreTimestamp(res.cache, res.ret,
                                                 old_timestamp)
           /\ bot_settings' = res.setting
           /\ price_origin' = OriginAfter(price_origin, res, clock)
           /\ last' = [NoLast EXCEPT !.kind = "refresh", !.quote = res.ret,
                                     !.finalize = res.layer,
                                     !.upstream = upstream,
                                     !.failed = DbFaults(dbRead, dbWrite),
                                     !.asked = res.asked]
    /\ UNCHANGED <<products, users, user_data, discount_codes, purchases,
                   solana_wallets, pending_deposits, chain, transfers,
                   treasury, audit, now, nextOrder, scanPc, scanQueue,
                   sweepTasks, retries, settled, commits, sold, released,
                   lateInflow, clock, recovery_funds, recover_job>>

\* Time passes until the moment t.
Elapse(t) ==
    /\ UNCHANGED extra
    /\ t > clock
    /\ clock' = t
    /\ last' = NoLast
    /\ UNCHANGED <<products, users, user_data, discount_codes, purchases,
                   solana_wallets, pending_deposits, chain, transfers,
                   treasury, audit, now, nextOrder, scanPc, scanQueue,
                   sweepTasks, retries, settled, commits, sold, released,
                   lateInflow, _price_cache, bot_settings, recovery_funds,
                   recover_job>>

PriceNext ==
    \/ \E p \in OraclePrices \cup {NoQuote}, r \in BOOLEAN, w \in BOOLEAN :
          get_sol_price_eur_call(p, r, w)
    \/ \E p \in OraclePrices \cup {NoQuote}, r \in BOOLEAN, w \in BOOLEAN :
          refresh_price_cache(p, r, w)
    \/ \E t \in ClockPoints : Elapse(t)

\* the process has just started: nothing is cached
PriceSpec == MintInit /\ [][PriceNext]_vars

\* ------------------------------------------------------------- properties
\* The step is one pass of the scan's loop body over wallet o with a balance
\* read that succeeded.
ScanStepOn(o) ==
    /\ scanPc = "loop"
    /\ scanQueue # <<>>
    /\ Head(scanQueue) = o
    /\ scanQueue' = Tail(scanQueue)
    /\ last'.kind \in {"paid", "under", "expired", "idle"}

\* The step runs _finalize_purchase for the purchase deposit of order o.
FinalizeStepOn(o) ==
    /\ last'.kind \in {"paid", "retry"}
    /\ last'.order = o
    /\ pending_deposits[o].present
    /\ pending_deposits[o].is_purchase

\* The audit entries the step appended.
NewAudit == SubSeq(audit', Len(audit) + 1, Len(audit'))

\* The audit entries of the step with the given reason.
NewCredits(reason) ==
    {i \in 1..Len(NewAudit) : NewAudit[i].reason = reason}

\* C1: every wallet that check_solana_deposits has set to 'paid' has had
\* exactly one successful settlement for its order: one finalization that
\* reported success for a purchase deposit, or one credit of target_eur for a
\* refill deposit; never zero and never more than one.
C1_ExactlyOneSettlement ==
    \A o \in OrderIds :
        solana_wallets[o].status = "paid" => settled[o] = 1

\* C2: once handle_cancel_crypto_payment has removed an order's pending
\* deposit, SOL that arrives at the address afterwards and is seen by the
\* scanner is credited back to the user: the audit log holds a credit for
\* the order worth the received amount at a quote.
C2_LateInflowCredited ==
    \A o \in OrderIds :
        (/\ lateInflow[o] > 0
         /\ solana_wallets[o].status \in {"paid", "refunded", "swept"})
        => \E i \in 1..Len(audit), q \in Quotes :
              /\ audit[i].order = o
              /\ audit[i].amount_change
                    = LamportsToCents(solana_wallets[o].amount_received, q)

\* C2 (observability): a cancellation leaves the wallet row as it was, so a
\* pending wallet is still fetched by the next scan.
C2_WalletStaysObservable ==
    [][\A o \in OrderIds :
          (released'[o] = "user_cancellation" /\ released[o] = "no")
          => solana_wallets'[o] = solana_wallets[o]]_vars

\* Rows of the purchases table for product p.
PurchaseRows(p) ==
    Cardinality({i \in 1..Len(purchases) : purchases[i].product_id = p})

\* C3: for every product the number of Purchase rows never exceeds the
\* number of units sold from it, also when the same payment is finalized by
\* the scanner and again by retry_purchase_finalization.
C3_OneRowPerUnit ==
    \A p \in Products : PurchaseRows(p) <= sold[p]

\* A payment finalized by the scanner and again by the retry loop, both
\* transactions committed.
C3_Witness ==
    \E o \in OrderIds :
        /\ commits[o] >= 2
        /\ retries[o] >= 1
        /\ \E p \in Products : PurchaseRows(p) >= 2

\* C4: finalization invoked again for the same payment_id commits nothing:
\* every payment has at most one committed finalize transaction.
C4_SecondFinalizeIsNoOp ==
    \A o \in OrderIds : commits[o] <= 1

\* The pending deposit of order o has outlived the payment lifetime and its
\* wallet is still 'pending'.
OldPending(o) ==
    /\ pending_deposits[o].present
    /\ solana_wallets[o].status = "pending"
    /\ Expired(pending_deposits[o].created_at)

\* The wallet of order o has left 'pending'.
LeftPending(o) == solana_wallets[o].status # "pending"

\* C5: under fair repetition of the scan job with successful balance reads,
\* a wallet whose pending deposit is older than the payment lifetime
\* eventually leaves 'pending' (for 'expired' or 'refunded', its reservations
\* released; here only the first and weakest part: it leaves 'pending').
C5_OldDepositLeavesPending ==
    \A o \in OrderIds : OldPending(o) ~> LeftPending(o)

\* The underpayment refund of b lamports at quote q, in cents.
RefundOf(o, q) == IF q = NoQuote THEN 0 ELSE LamportsToCents(chain[o], q)

\* The step refunds wallet o: status 'refunded', one audited credit of the
\* refund through credit_user_balance, and a sweep task for the funds.
Refunds(o, q) ==
    /\ solana_wallets'[o].status = "refunded"
    /\ users'[solana_wallets[o].user_id].balance
          = users[solana_wallets[o].user_id].balance + RefundOf(o, q)
    /\ Len(NewAudit) = 1
    /\ NewAudit[1].reason = "Underpayment refund"
    /\ NewAudit[1].amount_change = RefundOf(o, q)
    /\ \E t \in sweepTasks' \ sweepTasks : t.order = o /\ t.lamports = chain[o]

C7_PaidIffWithinTolerance ==
    [][\A o \in OrderIds :
          ScanStepOn(o)
          => ((solana_wallets'[o].status = "paid")
                <=> (chain[o] > 0
                     /\ chain[o] \div 50
                           >= 199 * solana_wallets[o].expected))]_vars

\* A wallet set to 'paid' at exactly b = 0.995 e.
C7_Witness ==
    \E o \in OrderIds :
        /\ last.kind = "paid" /\ last.order = o
        /\ solana_wallets[o].status = "paid"
        /\ solana_wallets[o].amount_received
              = 50 * (199 * solana_wallets[o].expected)

\* The surplus of wallet o over its expected amount, in lamports.
SurplusOf(o) == chain[o] - solana_wallets[o].expected * LAMPORTS_PER_UNIT

\* The step credits the overpayment of wallet o at quote q through
\* credit_user_balance.
CreditsSurplus(o, q) ==
    \E i \in NewCredits("Overpayment bonus") :
        /\ NewAudit[i].order = o
        /\ NewAudit[i].amount_change = LamportsToCents(SurplusOf(o), q)
        /\ users'[solana_wallets[o].user_id].balance
              >= users[solana_wallets[o].user_id].balance
                    + NewAudit[i].amount_change

\* C8 as stated: when a scan sets a wallet 'paid' with b > e and has a
\* price, every positive surplus worth at least a cent is credited as
\* (b - e) * q_now EUR.
C8_EverySurplusCredited ==
    [][\A o \in OrderIds :
          (ScanStepOn(o) /\ last'.kind = "paid" /\ last'.quote # NoQuote
             /\ SurplusOf(o) > 0
             /\ LamportsToCents(SurplusOf(o), last'.quote) >= 1)
          => CreditsSurplus(o, last'.quote)]_vars

\* C8 amended: the surplus is credited exactly when it exceeds 0.0005 SOL,
\* a price is available and (b - e) * q_now rounds to at least 0.01 EUR;
\* otherwise the step writes no overpayment credit.
C8_SurplusCreditedAboveThreshold ==
    [][\A o \in OrderIds :
          (ScanStepOn(o) /\ last'.kind = "paid")
          => IF /\ SurplusOf(o) > SURPLUS_MIN_LAMPORTS
                /\ last'.quote # NoQuote
                /\ LamportsToCents(SurplusOf(o), last'.quote) >= 1
             THEN CreditsSurplus(o, last'.quote)
             ELSE NewCredits("Overpayment bonus") = {}]_vars

\* A wallet paid with a surplus of exactly 0.0005 SOL and a price at hand.
C8_Witness ==
    \E o \in OrderIds :
        /\ last.kind = "paid" /\ last.order = o /\ last.quote # NoQuote
        /\ solana_wallets[o].amount_received
              = solana_wallets[o].expected * LAMPORTS_PER_UNIT
                   + SURPLUS_MIN_LAMPORTS

\* C9: when a finalize has committed and a send of its delivery failed (a
\* media group, an animation or the pickup text), the product rows of the
\* purchase are retained.
C9_RowsRetainedOnFailedDelivery ==
    [][\A o \in OrderIds :
          (FinalizeStepOn(o) /\ last'.finalize = "committed"
             /\ last'.failed # {})
          => \A i \in 1..Len(last'.processed) :
                products'[last'.processed[i]].exists]_vars

\* Some product of the snapshot is missing or has fewer available units
\* than the snapshot holds of it.
Unfinalizable(snapshot) ==
    \E i \in 1..Len(snapshot) :
        LET p == snapshot[i].product_id
        IN  \/ ~products[p].exists
            \/ products[p].available
                  < Cardinality({j \in 1..Len(snapshot) :
                                    snapshot[j].product_id = p})

\* C10: a finalize whose snapshot has a product that is missing, has
\* available <= 0 or runs out during the decrements commits nothing: stock,
\* Purchase rows, total_purchases, coupon uses and basket stay as they were.
C10_AllOrNothing ==
    [][\A o \in OrderIds :
          (FinalizeStepOn(o) /\ Unfinalizable(pending_deposits[o].snapshot))
          => /\ products' = products
             /\ purchases' = purchases
             /\ discount_codes' = discount_codes
             /\ \A u \in Users :
                   /\ users'[u].total_purchases = users[u].total_purchases
                   /\ users'[u].basket = users[u].basket
             /\ commits' = commits]_vars

\* A finalize abandoned at a decrement that matched no row, after an
\* earlier decrement of the same transaction.
C10_Witness == last.finalize = "rowcount_zero"

C12_NonNegative ==
    \A p \in Products :
        products[p].available >= 0 /\ products[p].reserved >= 0

\* One buyer's finalize has sold the last free unit of a product and the
\* other buyer's finalize of the same product has just been refused.
C12_Witness ==
    \E p \in Products :
        /\ last.kind \in {"paid", "retry"}
        /\ last.finalize = "stock_vanished"
        /\ products[p].exists
        /\ products[p].available = 0
        /\ \E i \in 1..Len(purchases) :
              /\ purchases[i].product_id = p
              /\ purchases[i].user_id # pending_deposits[last.order].user_id
        /\ \E j \in 1..Len(pending_deposits[last.order].snapshot) :
              pending_deposits[last.order].snapshot[j].product_id = p

\* Some committed finalize carried coupon c.
CouponCommitted(c) ==
    \E o \in DOMAIN pending_deposits :
        /\ pending_deposits[o].present
        /\ pending_deposits[o].discount_code = c
        /\ commits[o] >= 1

\* C13: for every coupon with max_uses set, uses_count <= max_uses in every
\* reachable state; when the finalizations of two buyers carry the same
\* max_uses = 1 coupon, exactly one of them increments uses_count, to 1, and
\* the other one commits its sale all the same.
C13_CouponNeverOverused ==
    \A c \in Codes :
        /\ discount_codes[c].max_uses # 0
              => discount_codes[c].uses_count <= discount_codes[c].max_uses
        /\ CouponCommitted(c) => discount_codes[c].uses_count >= 1

\* Both buyers' finalizations, carrying the same coupon, have committed.
C13_Witness ==
    \E c \in Codes :
        /\ \A o \in Buyers :
              /\ pending_deposits[o].present
              /\ pending_deposits[o].discount_code = c
              /\ commits[o] >= 1
        /\ \E i, j \in 1..Len(purchases) :
              purchases[i].user_id # purchases[j].user_id
        /\ discount_codes[c].uses_count = 1

\* C14: the price_paid of each Purchase row inserted by a committed
\* finalize equals the price fixed in the snapshot for that unit, whatever
\* has happened to the buyer's reseller discount since the invoice.
C14_PricePaidIsSnapshotPrice ==
    [][\A o \in DOMAIN pending_deposits :
          (FinalizeStepOn(o) /\ last'.finalize = "committed")
          => \A k \in 1..Len(pending_deposits[o].snapshot) :
                purchases'[Len(purchases) + k].price_paid
                   = pending_deposits[o].snapshot[k].price]_vars

\* The step is process_purchase_with_balance for user u, past its balance
\* test: the debit was committed.
DebitStepOf(u) ==
    /\ user_data[u].state = "awaiting_payment"
    /\ last'.kind = "balance"
    /\ last'.finalize # "insufficient_balance"

RECURSIVE AuditedChange(_, _)
AuditedChange(log, u) ==
    IF log = <<>> THEN 0
    ELSE (IF Head(log).user_id = u THEN Head(log).amount_change ELSE 0)
         + AuditedChange(Tail(log), u)

\* C16: every change of a user's EUR balance (automatic credit, debit of a
\* purchase paid from the balance, compensating re-credit) comes with audit
\* entries whose amount_change adds up to the change.
C16_EveryBalanceChangeAudited ==
    [][\A u \in DOMAIN users :
          users'[u].balance - users[u].balance = AuditedChange(NewAudit, u)]_vars

\* The step is a call of create_solana_payment for an order o that has a
\* wallet row already.
MintAgain(o) ==
    /\ last'.kind = "mint"
    /\ last'.order = o
    /\ solana_wallets[o].status # "none"

\* The call returned the address and the expected amount of o's row.
ReturnsRowOf(o) ==
    /\ last'.finalize = "none"
    /\ last'.pay_address = solana_wallets[o].public_key
    /\ last'.pay_amount = solana_wallets[o].expected

\* C17 as stated: a second call of create_solana_payment with the same
\* order_id leaves the one row as it is, stores no new keypair and returns
\* the first call's address and expected amount.
C17_SecondMintReturnsRow ==
    [][\A o \in MintOrders :
          MintAgain(o) => (solana_wallets' = solana_wallets /\ ReturnsRowOf(o))]_vars

\* C17 amended: a second call with the same order_id never changes the row
\* or stores a new keypair; it returns the row's address and expected
\* amount if a price is available, and estimate_failed if none is.
C17_SecondMintReturnsRowGivenPrice ==
    [][\A o \in MintOrders :
          MintAgain(o)
          => /\ solana_wallets' = solana_wallets
             /\ IF last'.quote # NoQuote THEN ReturnsRowOf(o)
                ELSE last'.finalize = "estimate_failed"]_vars

\* A second call for an order, for another amount, has just returned the
\* row of the first.
C17_Witness ==
    \E o \in MintOrders :
        /\ last.kind = "mint" /\ last.order = o /\ last.finalize = "none"
        /\ last.pay_address = solana_wallets[o].public_key
        /\ last.pay_amount = solana_wallets[o].expected
        /\ last.pay_amount # ExpectedSol(2000, last.quote)
        /\ solana_wallets[o].created_at < now

\* The step runs sweep task t.
SweepStepOf(t) == t \in sweepTasks /\ t \notin sweepTasks'

\* The balance sweep task t works with: the one handed over by the scan, or
\* the one on chain if none was.
SweepBalance(t) == IF t.lamports = 0 THEN chain[t.order] ELSE t.lamports

\* C18 as stated: sweep_wallet sends nothing and changes nothing when the
\* balance is <= 5000 lamports, and sends nothing at 5001 lamports.
C18_NoSweepUpTo5001 ==
    [][\A t \in sweepTasks :
          SweepStepOf(t)
          => /\ SweepBalance(t) <= SWEEP_FEE
                  => UNCHANGED <<solana_wallets, chain, treasury>>
             /\ SweepBalance(t) = SWEEP_FEE + 1
                  => UNCHANGED <<chain, treasury>>]_vars

\* The step sends `amount` lamports of wallet o to the treasury, the fee
\* leaves the address with it, and the row becomes 'swept'.
Sends(o, amount) ==
    /\ treasury' = treasury + amount
    /\ chain' = [chain EXCEPT ![o] = @ - (amount + SWEEP_FEE)]
    /\ solana_wallets' = [solana_wallets EXCEPT ![o].status = "swept"]

\* C18 amended: sweep_wallet sends nothing when the balance is <= 5000
\* lamports; below 5000 it only marks a row it was handed as 'paid' as
\* 'swept', at 5000 it changes nothing; at 5001 it either fails and changes
\* nothing or sends 1 lamport and marks the row 'swept'.
C18_NoSweepUpTo5000 ==
    [][\A t \in sweepTasks :
          SweepStepOf(t)
          => /\ SweepBalance(t) <= SWEEP_FEE
                  => UNCHANGED <<chain, treasury>>
             /\ SweepBalance(t) < SWEEP_FEE
                  => \/ UNCHANGED solana_wallets
                     \/ /\ t.status = "paid"
                        /\ solana_wallets' =
                              [solana_wallets EXCEPT ![t.order].status = "swept"]
             /\ SweepBalance(t) = SWEEP_FEE
                  => UNCHANGED solana_wallets
             /\ SweepBalance(t) = SWEEP_FEE + 1
                  => \/ UNCHANGED <<solana_wallets, chain, treasury>>
                     \/ Sends(t.order, 1)]_vars

\* The payment was swept, 5001 lamports came in afterwards and a later
\* sweep has sent one lamport of them.
C18_Witness ==
    \E o \in OrderIds :
        /\ solana_wallets[o].status = "swept"
        /\ chain[o] = 0
        /\ transfers[o] = 2
        /\ treasury = (solana_wallets[o].amount_received - SWEEP_FEE) + 1

\* C19: sweeping is idempotent: however many sweep_wallet tasks run for a
\* paid wallet, the direct one and the one of the paid-wallet recovery loop
\* of the same scan included, the payment reaches the treasury at most once,
\* less one fee, the address is never overdrawn, and once anything was sent
\* the row is 'swept'.
C19_SweptAtMostOnce ==
    \A o \in OrderIds :
        /\ chain[o] >= 0
        /\ treasury > 0 => solana_wallets[o].status = "swept"
        /\ transfers[o] = 1
              => \/ treasury = 0
                 \/ /\ treasury = solana_wallets[o].amount_received - SWEEP_FEE
                    /\ chain[o] = 0

\* One sweep task of the scan has moved the payment to the treasury and
\* the scan's other task for the same wallet is still to run.
C19_Witness ==
    \E t \in sweepTasks :
        /\ transfers[t.order] = 1
        /\ solana_wallets[t.order].status = "swept"
        /\ chain[t.order] = 0
        /\ treasury = solana_wallets[t.order].amount_received - SWEEP_FEE

\* The step is handle_select_basket_crypto for user u.
InvoiceStepOf(u) ==
    /\ user_data[u].state = "awaiting_payment"
    /\ last'.kind = "invoice"

\* C20: when create_nowpayments_payment aborts because the price oracle
\* returns no quote or because the coupon no longer validates, the attempt
\* writes no solana_wallets row and no pending deposit.
C20_AbortWritesNothing ==
    [][\A u \in Users :
          (InvoiceStepOf(u)
             /\ last'.finalize \in {"estimate_failed", "discount_code_invalid"})
          => /\ solana_wallets' = solana_wallets
             /\ pending_deposits' = pending_deposits]_vars

\* An invoice attempt has just been turned down for its coupon, exhausted
\* since it was applied.
C20_Witness ==
    /\ last.kind = "invoice"
    /\ last.finalize = "discount_code_invalid"
    /\ last.quote # NoQuote

\* An invoice attempt has just been turned down for want of a quote.
C20_WitnessNoQuote ==
    /\ last.kind = "invoice"
    /\ last.finalize = "estimate_failed"
    /\ \A o \in OrderIds : solana_wallets[o] = NoWallet

\* The step is a call of get_sol_price_eur in which every upstream source
\* failed and neither the memory cache nor the database cache is fresh.
AllFailedNothingFresh ==
    /\ last'.kind = "price"
    /\ last'.upstream = NoQuote
    /\ ~(_price_cache.price # 0
         /\ clock - _price_cache.timestamp < PRICE_CACHE_TTL)
    /\ ~(bot_settings.present
         /\ clock - bot_settings.updated_at < DB_CACHE_TTL)

\* C21: when every upstream fails and neither cache layer is fresh,
\* get_sol_price_eur returns the memory-cache value if its age is under
\* 3600 s and None otherwise.
C21_StaleFallback ==
    [][AllFailedNothingFresh =>
          last'.quote =
             IF _price_cache.price # 0
                /\ clock - _price_cache.timestamp < 3600
             THEN _price_cache.price
             ELSE NoQuote]_vars

\* A value aged 3599 s was just returned from the stale layer.
C21_Witness ==
    /\ last.kind = "price"
    /\ last.finalize = "stale"
    /\ last.quote = _price_cache.price
    /\ clock - _price_cache.timestamp = 3599

\* At exactly 3600 s the stale value was refused.
C21_WitnessTooOld ==
    /\ last.kind = "price"
    /\ last.finalize = "none"
    /\ _price_cache.price # 0
    /\ clock - _price_cache.timestamp = 3600

\* The stored key of row o loads and derives the recorded address.
KeyDerivesAddress(o) ==
    /\ KeyLoads(solana_wallets[o].private_key)
    /\ solana_wallets[o].private_key = solana_wallets[o].public_key

\* lamports held by a recovery target
FundsAt(target, tr, rf) == IF target = "admin" THEN tr ELSE rf[target]

\* The search of recover_stuck_funds lists exactly the rows, of any status,
\* with a deriving key and a balance read above 0.0001 SOL, and the target
\* is the one given, else the recovery wallet, else the treasury.
SearchIsComplete ==
    last'.kind = "find"
    => /\ \A o \in DOMAIN solana_wallets :
             (\E i \in 1..Len(recover_job'.stuck) :
                 recover_job'.stuck[i] = [order |-> o, lamports |-> chain[o]])
             <=> /\ KeyDerivesAddress(o)
                 /\ o \notin last'.failed
                 /\ chain[o] > STUCK_MIN_LAMPORTS
       /\ Len(recover_job'.stuck) <= Cardinality(DOMAIN solana_wallets)
       /\ recover_job'.target =
             IF last'.target # "none" THEN last'.target
             ELSE IF recover_job.recovery_wallet THEN "recovery"
             ELSE "admin"

\* A listed wallet whose balance is still there is emptied into the target,
\* less the fee, when the send goes through; nothing moves otherwise.
ListedWalletIsSwept ==
    last'.kind = "recover"
    => LET info == Head(recover_job.stuck)
           o == info.order
           target == recover_job.target
       IN  /\ KeyDerivesAddress(o)
           /\ IF last'.failed = {} /\ chain[o] >= info.lamports
              THEN /\ FundsAt(target, treasury', recovery_funds') =
                         FundsAt(target, treasury, recovery_funds)
                            + info.lamports - SWEEP_FEE
                   /\ chain' = [chain EXCEPT ![o] = @ - info.lamports]
              ELSE UNCHANGED <<chain, treasury, recovery_funds,
                               solana_wallets>>

\* C22: recover_stuck_funds examines every wallet row regardless of status
\* and sweeps each wallet holding more than 0.0001 SOL to the target (the
\* one given, by default the recovery wallet, else the treasury); a wallet
\* whose stored key does not derive its address is skipped and nothing is
\* signed for it.
C22_RecoverSweepsEveryFundedWallet ==
    [][SearchIsComplete /\ ListedWalletIsSwept]_vars

\* The pending second wallet was emptied into the recovery wallet while the
\* first, marked 'expired' and funded but with a key that derives another
\* address, was passed over.
C22_Witness ==
    /\ last.kind = "recover"
    /\ last.order = 2
    /\ last.ret
    /\ recovery_funds["recovery"] = 100000000 - SWEEP_FEE
    /\ chain[2] = 0
    /\ solana_wallets[1].status = "expired"
    /\ ~KeyDerivesAddress(1)
    /\ chain[1] > STUCK_MIN_LAMPORTS
    /\ recover_job.pc = "idle"

\* C26 as stated: sweep_wallet sends nothing from, and changes nothing for,
\* a wallet whose stored key does not derive its recorded address.
C26_SweepSkipsCorruptKey ==
    [][\A t \in sweepTasks :
          SweepStepOf(t) /\ ~KeyDerivesAddress(t.order)
          => UNCHANGED <<chain, treasury, solana_wallets>>]_vars

\* C29 as stated: the recovery operations never change a wallet's status.
C29_RecoveryOnlyReads ==
    [][last'.kind \in {"find", "recover", "recover_single"}
          => \A o \in DOMAIN solana_wallets :
                solana_wallets'[o].status = solana_wallets[o].status]_vars

\* C23 as stated: when the scanner settles a purchase wallet as paid and
\* finalization succeeds, the order's pending deposit is removed.
C23_DepositRemovedOnSuccess ==
    [][\A o \in DOMAIN pending_deposits :
          /\ last'.kind = "paid"
          /\ last'.order = o
          /\ last'.ret
          /\ pending_deposits[o].present
          /\ pending_deposits[o].is_purchase
          => ~pending_deposits'[o].present]_vars

\* product ids of a snapshot, one per entry
RECURSIVE SnapshotIds(_)
SnapshotIds(snapshot) ==
    IF snapshot = <<>> THEN <<>>
    ELSE <<Head(snapshot).product_id>> \o SnapshotIds(Tail(snapshot))

\* C24 as stated: when the scanner's finalize commits, every snapshot entry
\* takes one unit out of `available` and one out of `reserved` where
\* `reserved` was at least 1.
C24_FinalizeConsumesReservation ==
    [][\A o \in DOMAIN pending_deposits :
          /\ last'.kind = "paid"
          /\ last'.order = o
          /\ last'.finalize = "committed"
          => \A p \in Products :
                LET n == CountIn(SnapshotIds(pending_deposits[o].snapshot), p)
                IN  /\ products'[p].available = products[p].available - n
                    /\ products'[p].reserved =
                          IF products[p].reserved >= n
                          THEN products[p].reserved - n ELSE 0]_vars

\* C25 as stated: whenever invoice creation for a basket payment fails, the
\* reservations of the basket snapshot are released.
C25_FailedInvoiceReleases ==
    [][\A u \in Users :
          InvoiceStepOf(u) /\ last'.finalize # "none"
          => products' = _unreserve_basket_items(
                             products, user_data[u].basket_pay_snapshot)]_vars

\* C27 as stated: the expected amount stored with a new wallet row, valued
\* at the quote used, covers the EUR amount (expected_sol * q >= eur_amount;
\* both sides in units of 10^-5 EUR).
C27_ExpectedCoversAmount ==
    [][\A o \in DOMAIN solana_wallets :
          /\ last'.kind = "mint"
          /\ last'.order = o
          /\ solana_wallets[o].status = "none"
          /\ solana_wallets'[o].status = "pending"
          => solana_wallets'[o].expected * last'.quote
                >= last'.eur * 1000]_vars

\* ------------------------------------------ amounts handed to the ledger
\* cents handed to process_purchase_with_balance
DebitAmounts == {0 - 100, 0, 900}

\* cents handed to credit_user_balance
CreditAmounts == {0 - 100, 0, 500}

\* credit_user_balance called with an amount and a reason; the number of
\* credits is capped by MaxCredits.
credit_user_balance_call(u, amount) ==
    /\ UNCHANGED more
    /\ Len(audit) < MaxCredits
    /\ LET res == credit_user_balance(users, audit, u, amount,
                                      "Refill payment", 0)
       IN  /\ users' = res.users
           /\ audit' = res.audit
           /\ last' = [NoLast EXCEPT !.kind = "credit", !.ret = res.ok,
                                     !.eur = amount]
    /\ UNCHANGED <<products, user_data, discount_codes, purchases,
                   solana_wallets, pending_deposits, chain, transfers,
                   treasury, now, nextOrder, scanPc, scanQueue, sweepTasks,
                   retries, settled, commits, sold, released, lateInflow>>

LedgerNext ==
    \/ \E u \in Users, amount \in DebitAmounts, d \in DeliveryInputs :
          process_purchase_with_balance_call(u, amount, d)
    \/ \E u \in Users, amount \in CreditAmounts :
          credit_user_balance_call(u, amount)

LedgerSpec == PayInit /\ [][LedgerNext]_vars

\* C28: a credit or a pay-with-balance debit of an amount <= 0 (0 included)
\* is refused: the call returns False and no balance changes.
C28_NonPositiveRefused ==
    [][/\ last'.kind \in {"balance", "credit"}
       /\ last'.eur <= 0
       => /\ last'.ret = FALSE
          /\ \A u \in Users : users'[u].balance = users[u].balance]_vars

\* The coupon UPDATE for this code would affect zero rows: the code is used up.
CouponExhausted(code) ==
    /\ code # NoCode
    /\ CouponRowcount(discount_codes, code) = 0

\* Units of product p in a snapshot.
RECURSIVE UnitsOf(_, _)
UnitsOf(snapshot, p) ==
    IF snapshot = <<>> THEN 0
    ELSE (IF Head(snapshot).product_id = p THEN 1 ELSE 0)
         + UnitsOf(Tail(snapshot), p)

RECURSIVE Pow3(_)
Pow3(n) == IF n = 0 THEN 1 ELSE 3 * Pow3(n - 1)

\* if attempt > 0: wait_time = 5 * (3 ** attempt); await asyncio.sleep(wait_time)
RetryWait(attempt) == IF attempt > 0 THEN 5 * Pow3(attempt) ELSE 0

\* A loop that goes round once more than max_retries.
RetryGoesOnOneMore(attempt) == attempt < MAX_RETRIES + 1

\* for attempt in range(max_retries): the loop has another round.
RetryGoesOn(attempt) == attempt < MAX_RETRIES

\* if get_first_primary_admin_id() and telegram_app: send the critical alert.
AlertAdmin(inbox, o, admin) == IF admin THEN inbox \cup {o} ELSE inbox

\* retry_purchase_finalization is called for a confirmed purchase whose
\* finalization has not reported success; its arguments are the stored ones.
retry_purchase_finalization_begin(o) ==
    /\ retry_job.pc = "idle"
    /\ pending_deposits[o].present
    /\ pending_deposits[o].is_purchase
    /\ solana_wallets[o].status \in {"paid", "swept"}
    /\ settled[o] = 0
    /\ retry_job' = [NoRetryJob EXCEPT
                        !.pc = "loop", !.order = o,
                        !.user_id = pending_deposits[o].user_id,
                        !.snapshot = pending_deposits[o].snapshot,
                        !.discount_code = pending_deposits[o].discount_code]
    /\ last' = [NoLast EXCEPT !.kind = "retry_begin", !.order = o]
    /\ UNCHANGED <<products, users, user_data, discount_codes, purchases,
                   solana_wallets, pending_deposits, chain, transfers,
                   treasury, audit, now, nextOrder, scanPc, scanQueue,
                   sweepTasks, retries, settled, commits, sold, released,
                   lateInflow, _price_cache, bot_settings, clock,
                   recovery_funds, recover_job, admin_inbox,
                   reseller_discounts, reseller_mgmt, paid_seen,
                   price_origin, callbacks>>

\* One round of the loop: the sleep, the finalization and, on success, the
\* removal of the pending deposit and the return of True.
retry_purchase_finalization_attempt(d) ==
    /\ retry_job.pc = "loop"
    /\ RetryGoesOn(retry_job.attempt)
    /\ LET o == retry_job.order
           fin == process_successful_crypto_purchase(Db, retry_job.user_id,
                      retry_job.snapshot, retry_job.discount_code, d)
           rm == remove_pending_deposit(pending_deposits, fin.db.products, o,
                                        "retry_success")
       IN  /\ clock' = clock + RetryWait(retry_job.attempt)
           /\ products' = IF fin.ret THEN rm.products ELSE fin.db.products
           /\ users' = fin.db.users
           /\ purchases' = fin.db.purchases
           /\ discount_codes' = fin.db.discount_codes
           /\ pending_deposits' = IF fin.ret THEN rm.deposits
                                  ELSE pending_deposits
           /\ retries' = [retries EXCEPT ![o] = @ + 1]
           /\ settled' = [settled EXCEPT ![o] = @ + (IF fin.ret THEN 1 ELSE 0)]
           /\ commits' = [commits EXCEPT
                            ![o] = @ + (IF fin.committed THEN 1 ELSE 0)]
           /\ sold' = SoldAfter(Db, fin)
           /\ retry_job' = IF fin.ret
                           THEN [retry_job EXCEPT !.pc = "done", !.ret = TRUE,
                                                  !.attempt = @ + 1]
                           ELSE [retry_job EXCEPT !.attempt = @ + 1]
           /\ last' = LastOf("retry_attempt", o, NoQuote, fin)
    /\ UNCHANGED <<user_data, solana_wallets, chain, transfers, treasury,
                   audit, now, nextOrder, scanPc, scanQueue, sweepTasks,
                   released, lateInflow, _price_cache, bot_settings,
                   recovery_funds, recover_job, admin_inbox,
                   reseller_discounts, reseller_mgmt, paid_seen,
                   price_origin, callbacks>>

\* The loop is over with no success: the critical alert, then return False.
retry_purchase_finalization_exhausted(admin) ==
    /\ retry_job.pc = "loop"
    /\ ~RetryGoesOn(retry_job.attempt)
    /\ admin_inbox' = AlertAdmin(admin_inbox, retry_job.order, admin)
    /\ retry_job' = [retry_job EXCEPT !.pc = "done", !.ret = FALSE]
    /\ last' = [NoLast EXCEPT !.kind = "retry_exhausted",
                              !.order = retry_job.order,
                              !.target = IF admin THEN "admin" ELSE "none"]
    /\ UNCHANGED <<products, users, user_data, discount_codes, purchases,
                   solana_wallets, pending_deposits, chain, transfers,
                   treasury, audit, now, nextOrder, scanPc, scanQueue,
                   sweepTasks, retries, settled, commits, sold, released,
                   lateInflow, _price_cache, bot_settings, clock,
                   recovery_funds, recover_job, reseller_discounts,
                   reseller_mgmt, paid_seen,
                   price_origin, callbacks>>

\* A purchase invoice has been classified as paid and its finalization has
\* not reported success; the stock of the basket is reserved, or the row of
\* product 2 has been deleted since.
RetryInit ==
    /\ \E b \in InitBaskets, code \in Codes \cup {NoCode},
          gone \in {{}, {2}}, q \in Quotes :
          /\ gone \subseteq {b[i] : i \in 1..Len(b)}
          /\ users = [u \in Users |->
                        [balance |-> 0, total_purchases |-> 0, basket |-> b,
                         is_reseller |-> FALSE, discount_percentage |-> 0]]
          /\ products = InitProducts(b, gone)
          /\ pending_deposits = [o \in OrderIds |->
                [present |-> TRUE, user_id |-> 1, is_purchase |-> TRUE,
                 snapshot |-> BasketSnapshot(b), discount_code |-> code,
                 target_eur |-> ApplyCoupon(code, SumPrices(BasketSnapshot(b))),
                 created_at |-> 0]]
          /\ solana_wallets = [o \in OrderIds |->
                [status |-> "paid", user_id |-> 1, public_key |-> o,
                 private_key |-> o,
                 expected |-> ExpectedSol(
                     ApplyCoupon(code, SumPrices(BasketSnapshot(b))), q),
                 amount_received |-> ExpectedSol(
                     ApplyCoupon(code, SumPrices(BasketSnapshot(b))), q)
                       * LAMPORTS_PER_UNIT,
                 created_at |-> 0]]
          /\ chain = [o \in OrderIds |->
                ExpectedSol(ApplyCoupon(code, SumPrices(BasketSnapshot(b))), q)
                   * LAMPORTS_PER_UNIT]
    /\ user_data = [u \in Users |-> NoUserData]
    /\ discount_codes = [c \in Codes |-> [uses_count |-> 0, max_uses |-> 1]]
    /\ purchases = <<>>
    /\ transfers = [o \in OrderIds |-> 1]
    /\ treasury = 0
    /\ audit = <<>>
    /\ now = 0
    /\ nextOrder = 2
    /\ scanPc = "idle"
    /\ scanQueue = <<>>
    /\ sweepTasks = {}
    /\ retries = [o \in OrderIds |-> 0]
    /\ settled = [o \in OrderIds |-> 0]
    /\ commits = [o \in OrderIds |-> 0]
    /\ sold = [p \in Products |-> 0]
    /\ released = [o \in OrderIds |-> "no"]
    /\ lateInflow = [o \in OrderIds |-> 0]
    /\ last = NoLast
    /\ _price_cache = NoPriceCache
    /\ bot_settings = NoSetting
    /\ clock = 0
    /\ recovery_funds = [t \in RecoveryTargets |-> 0]
    /\ recover_job = NoRecoverJob
    /\ retry_job = NoRetryJob
    /\ admin_inbox = {}
    /\ reseller_discounts = <<>>
    /\ reseller_mgmt = NoResellerMgmt
    /\ paid_seen = OrderIds
    /\ price_origin = NoOrigin
    /\ callbacks = NoCallbacks

RetryNext ==
    \/ \E o \in OrderIds : retry_purchase_finalization_begin(o)
    \/ \E d \in DeliveryInputs : retry_purchase_finalization_attempt(d)
    \/ \E admin \in BOOLEAN : retry_purchase_finalization_exhausted(admin)
    \/ \E o \in OrderIds : clean_expired_pending_payments(o)
    \/ Tick

\* The event loop keeps running the coroutine once it has been started.
RetryFairness ==
    /\ WF_vars(\E d \in DeliveryInputs : retry_purchase_finalization_attempt(d))
    /\ WF_vars(\E admin \in BOOLEAN : retry_purchase_finalization_exhausted(admin))

RetrySpec == RetryInit /\ [][RetryNext]_vars /\ RetryFairness

\* The step is a round of the retry loop.
RetryRound ==
    /\ retry_job.pc = "loop"
    /\ retry_job'.attempt = retry_job.attempt + 1

\* The step is the end of a retry loop that never succeeded.
RetryGivesUp ==
    /\ retry_job.pc = "loop"
    /\ last'.kind = "retry_exhausted"

MemoryFresh ==
    /\ _price_cache.price # 0
    /\ clock - _price_cache.timestamp < 300

\* The persistent cache holds a price younger than 600 s and the read of it
\* in this step works.
PersistentFresh ==
    /\ bot_settings.present
    /\ clock - bot_settings.updated_at < 600
    /\ "db_read" \notin last'.failed

\* C32: get_sol_price_eur returns a memory-cache entry younger than 300 s
\* having consulted nothing else and changed neither cache; otherwise it
\* returns a persistent-cache entry younger than 600 s without asking any
\* upstream (the memory cache takes the value); only otherwise are the
\* upstreams asked, and a price they give is returned and written to the
\* memory cache and, when the write works, to the persistent cache.
C32_LayersInOrder ==
    [][last'.kind = "price" =>
          /\ MemoryFresh =>
                /\ last'.quote = _price_cache.price
                /\ last'.asked = <<"memory">>
                /\ UNCHANGED <<_price_cache, bot_settings>>
          /\ ~MemoryFresh /\ PersistentFresh =>
                /\ last'.quote = bot_settings.price
                /\ last'.asked = <<"memory", "db">>
                /\ _price_cache' = [price |-> bot_settings.price,
                                    timestamp |-> clock]
                /\ UNCHANGED bot_settings
          /\ ~MemoryFresh /\ ~PersistentFresh =>
                /\ last'.asked = <<"memory", "db", "api">>
                /\ last'.upstream # NoQuote =>
                      /\ last'.quote = last'.upstream
                      /\ _price_cache' = [price |-> last'.upstream,
                                          timestamp |-> clock]
                      /\ "db_write" \notin last'.failed =>
                            bot_settings' = [present |-> TRUE,
                                             price |-> last'.upstream,
                                             updated_at |-> clock]]_vars

\* The memory cache was 300 s old or more, and the price came from a
\* persistent-cache entry 599 s old although an upstream had another price.
C32_Witness ==
    /\ last.kind = "price"
    /\ last.asked = <<"memory", "db">>
    /\ last.upstream # NoQuote
    /\ last.upstream # last.quote
    /\ last.quote = bot_settings.price
    /\ clock - bot_settings.updated_at = 599
    /\ _price_cache = [price |-> bot_settings.price, timestamp |-> clock]

\* ------------------------------------------- the USD path of the oracle
\* EUR/USD rates in thousandths: the sanity bounds and the fallback rate
FX_MIN == 500
FX_MAX == 1500
FX_FALLBACK == 920
\* what one FX source answers: 0 for a failed request, else a rate
FxAnswers == {0, 500, 1000, 1501}
\* the three FX sources, in the order they are asked
FxSources == 1..3
\* SOL/USD in cents from the USD sources, 0 when every one of them fails
UsdPrices == {0, 20000}
\* SOL/EUR in cents from the direct EUR pairs, 0 when they fail
EurPrices == {0, 19000}
\* moments, in seconds, at which this oracle is looked at
FxClockPoints == {300, 600, 3600}

\* if rate and rate > Decimal("0.5") and rate < Decimal("1.5")
RateAccepted(rate) == rate # 0 /\ rate > FX_MIN /\ rate < FX_MAX

\* _get_eur_usd_rate: the first answer that passes the sanity check, else
\* the approximate rate 0.92.
RECURSIVE _get_eur_usd_rate(_)
_get_eur_usd_rate(answers) ==
    IF answers = <<>> THEN [rate |-> FX_FALLBACK, source |-> "fallback"]
    ELSE IF RateAccepted(Head(answers))
    THEN [rate |-> Head(answers), source |-> "fx"]
    ELSE _get_eur_usd_rate(Tail(answers))

\* Layers 3 and 3.5 of get_sol_price_eur, prices in cents: the USD price
\* times the EUR/USD rate, quantized to the cent; with no USD price, the
\* direct EUR pairs.
UpstreamPrice(usd, answers, eur) ==
    IF usd # 0
    THEN LET fx == _get_eur_usd_rate(answers)
         IN  [price |-> QuantizeHalfEven(usd * fx.rate, 1000), fx |-> fx]
    ELSE [price |-> eur, fx |-> [rate |-> 0, source |-> "none"]]

\* One call of get_sol_price_eur, the answers of its upstream sources given.
get_sol_price_eur_upstreams(usd, answers, eur, dbRead, dbWrite) ==
    /\ UNCHANGED <<retry_job, admin_inbox, reseller_discounts, reseller_mgmt,
                   paid_seen, callbacks>>
    /\ LET up == UpstreamPrice(usd, answers, eur)
           res == get_sol_price_eur(_price_cache, bot_settings, clock,
                                    up.price, dbRead, dbWrite)
       IN  /\ _price_cache' = res.cache
           /\ bot_settings' = res.setting
           /\ price_origin' = OriginAfter(price_origin, res, clock)
           /\ last' = [NoLast EXCEPT !.kind = "price", !.quote = res.ret,
                                     !.finalize = res.layer,
                                     !.upstream = up.price,
                                     !.failed = DbFaults(dbRead, dbWrite),
                                     !.asked = res.asked,
                                     !.fx = IF res.layer = "api" THEN up.fx
                                            ELSE [rate |-> 0,
                                                  source |-> "none"]]
    /\ UNCHANGED <<products, users, user_data, discount_codes, purchases,
                   solana_wallets, pending_deposits, chain, transfers,
                   treasury, audit, now, nextOrder, scanPc, scanQueue,
                   sweepTasks, retries, settled, commits, sold, released,
                   lateInflow, clock, recovery_funds, recover_job>>

FxNext ==
    \/ \E usd \in UsdPrices, answers \in [FxSources -> FxAnswers],
          eur \in EurPrices, r \in BOOLEAN, w \in BOOLEAN :
          get_sol_price_eur_upstreams(usd, answers, eur, r, w)
    \/ \E t \in FxClockPoints : Elapse(t)

\* the process has just started: nothing is cached
FxSpec == MintInit /\ [][FxNext]_vars

\* C33: a quote produced through the USD path uses a rate that an FX source
\* answered and that lies in [0.5, 1.5], bounds included.
C33_RateFromFxSourceInRange ==
    [][/\ last'.kind = "price"
       /\ last'.finalize = "api"
       /\ last'.fx.source # "none"
       => /\ last'.fx.source = "fx"
          /\ last'.fx.rate >= 500
          /\ last'.fx.rate <= 1500]_vars

\* ------------------------------------------- the reseller discount dialog
\* resellers the admin manages, and the product types
Resellers == {1, 2}
ResellerTypes == {"pills"}
\* texts the admin sends as a percentage
PercentTexts == {"0", "15.5", "99.99", "100", "100.04", "-1", "abc", "NaN"}

\* Decimal(percent_text): the number in hundredths of a percent, or what the
\* constructor does with a text that is no number.
DecimalOf(text) ==
    CASE text = "0"      -> [kind |-> "number", hundredths |-> 0]
      [] text = "15.5"   -> [kind |-> "number", hundredths |-> 1550]
      [] text = "99.99"  -> [kind |-> "number", hundredths |-> 9999]
      [] text = "100"    -> [kind |-> "number", hundredths |-> 10000]
      [] text = "100.04" -> [kind |-> "number", hundredths |-> 10004]
      [] text = "-1"     -> [kind |-> "number", hundredths |-> 0 - 100]
      [] text = "NaN"    -> [kind |-> "nan", hundredths |-> 0]
      [] OTHER           -> [kind |-> "invalid", hundredths |-> 0]

\* A range test that lets everything through.
PercentInRangeAlways(dec) == TRUE

\* Decimal('0.0') <= percentage <= Decimal('100.0')
PercentInRange(dec) == 0 <= dec.hundredths /\ dec.hundredths <= 10000

\* float(percentage.quantize(Decimal("0.1"))), in tenths of a percent
StoredPercent(dec) == QuantizeHalfEven(dec.hundredths, 10)

\* INSERT OR REPLACE INTO reseller_discounts: the row with the same
\* (reseller_user_id, product_type) is replaced.
InsertOrReplace(rows, r, t, pct) ==
    SelectSeq(rows, LAMBDA row : ~(row.reseller_user_id = r
                                   /\ row.product_type = t))
       \o <<[reseller_user_id |-> r, product_type |-> t,
             discount_percentage |-> pct]>>

\* Messages of the dialog that changed a rule.
RuleEdits ==
    Cardinality({i \in 1..Len(audit) : audit[i].reason = "reseller_discount"})

\* handle_reseller_add_discount_enter_percent and handle_reseller_edit_discount:
\* the admin is asked for the percentage of reseller r and type t.
handle_reseller_enter_percent(r, t, mode) ==
    /\ reseller_mgmt' = [state |-> "awaiting_reseller_discount_percent",
                         target_id |-> r, product_type |-> t, mode |-> mode]
    /\ last' = NoLast
    /\ UNCHANGED <<products, users, user_data, discount_codes, purchases,
                   solana_wallets, pending_deposits, chain, transfers,
                   treasury, audit, now, nextOrder, scanPc, scanQueue,
                   sweepTasks, retries, settled, commits, sold, released,
                   lateInflow, _price_cache, bot_settings, clock,
                   recovery_funds, recover_job, retry_job, admin_inbox,
                   reseller_discounts, paid_seen,
                   price_origin, callbacks>>

\* handle_reseller_percent_message for the text the admin sent: a text that
\* is no number, or NaN, raises decimal.InvalidOperation, which the handler
\* does not catch; a number out of range raises ValueError, answered with a
\* message; in both cases the dialog stays open.  A number in range is
\* stored with one decimal place and logged, unless the database fails.
handle_reseller_percent_text(text, dbOk) ==
    /\ reseller_mgmt.state = "awaiting_reseller_discount_percent"
    /\ RuleEdits < MaxRuleEdits
    /\ LET dec == DecimalOf(text)
           r == reseller_mgmt.target_id
           t == reseller_mgmt.product_type
       IN  IF dec.kind # "number"
           THEN /\ last' = [NoLast EXCEPT !.kind = "percent_message",
                                          !.target = text,
                                          !.finalize = "invalid_operation"]
                /\ UNCHANGED <<reseller_discounts, reseller_mgmt, audit>>
           ELSE IF ~PercentInRange(dec)
           THEN /\ last' = [NoLast EXCEPT !.kind = "percent_message",
                                          !.target = text,
                                          !.finalize = "value_error"]
                /\ UNCHANGED <<reseller_discounts, reseller_mgmt, audit>>
           ELSE IF ~dbOk
           THEN /\ last' = [NoLast EXCEPT !.kind = "percent_message",
                                          !.target = text,
                                          !.finalize = "db_error"]
                /\ reseller_mgmt' = NoResellerMgmt
                /\ UNCHANGED <<reseller_discounts, audit>>
           ELSE /\ reseller_discounts' =
                      InsertOrReplace(reseller_discounts, r, t,
                                      StoredPercent(dec))
                /\ audit' = Append(audit, [user_id |-> r, amount_change |-> 0,
                                           reason |-> "reseller_discount",
                                           order |-> 0])
                /\ reseller_mgmt' = NoResellerMgmt
                /\ last' = [NoLast EXCEPT !.kind = "percent_message",
                                          !.target = text,
                                          !.finalize = "stored", !.ret = TRUE]
    /\ UNCHANGED <<products, users, user_data, discount_codes, purchases,
                   solana_wallets, pending_deposits, chain, transfers,
                   treasury, now, nextOrder, scanPc, scanQueue, sweepTasks,
                   retries, settled, commits, sold, released, lateInflow,
                   _price_cache, bot_settings, clock, recovery_funds,
                   recover_job, retry_job, admin_inbox, paid_seen,
                   price_origin, callbacks>>

ResellerNext ==
    \/ \E r \in Resellers, t \in ResellerTypes, mode \in {"add", "edit"} :
          handle_reseller_enter_percent(r, t, mode)
    \/ \E text \in PercentTexts, dbOk \in BOOLEAN :
          handle_reseller_percent_text(text, dbOk)

\* no discount rule exists yet
ResellerSpec == MintInit /\ [][ResellerNext]_vars

\* Texts that are no number, or a number outside 0..100.
NotAPercentage == {"100.04", "-1", "abc", "NaN"}

\* C34: after any sequence of add and edit messages every stored percentage
\* lies in 0..100 and no two rules share (reseller_user_id, product_type);
\* a message whose text is out of range or no number changes no rule.
C34_DiscountRulesWellFormed ==
    /\ [](\A i \in 1..Len(reseller_discounts) :
             /\ reseller_discounts[i].discount_percentage >= 0
             /\ reseller_discounts[i].discount_percentage <= 1000
             /\ \A j \in 1..Len(reseller_discounts) :
                   (/\ reseller_discounts[i].reseller_user_id
                          = reseller_discounts[j].reseller_user_id
                    /\ reseller_discounts[i].product_type
                          = reseller_discounts[j].product_type) => i = j)
    /\ [][/\ last'.kind = "percent_message"
          /\ last'.target \in NotAPercentage
          => reseller_discounts' = reseller_discounts]_vars

\* Both resellers have a rule, one of them entered a second time, and the
\* text 99.99 has just been stored as 100.0.
C34_Witness ==
    /\ Len(reseller_discounts) = 2
    /\ RuleEdits = 3
    /\ last.kind = "percent_message"
    /\ last.target = "99.99"
    /\ \E i \in 1..Len(reseller_discounts) :
          reseller_discounts[i].discount_percentage = 1000

\* C35: when process_purchase_with_balance has run for a positive amount, the
\* user's balance is lower by that amount if and only if the sale was
\* committed (stock decremented and Purchase rows inserted).
C35_DebitKeptIffSaleCommitted ==
    [][\A u \in Users :
          /\ last'.kind = "balance"
          /\ user_data[u].state = "awaiting_payment"
          /\ last'.eur > 0
          => (users'[u].balance = users[u].balance - last'.eur
                <=> (/\ Len(purchases') > Len(purchases)
                     /\ \E p \in Products : sold'[p] > sold[p]))]_vars

\* C36: check_payment_status reports 'confirmed' for an order only if the
\* scanner has classified its wallet as paid.
C36_ConfirmedOnlyIfPaid ==
    (last.kind = "status" /\ last.finalize = "confirmed")
       => last.order \in paid_seen

\* C37: every price returned by get_sol_price_eur, to a caller or to the
\* background refresh, was obtained from an upstream source at most 3600 s
\* earlier.  (The returned price is the one the memory cache then holds.)
C37_PriceAtMostOneHourOld ==
    (last.kind \in {"price", "refresh"} /\ last.quote # NoQuote)
       => /\ _price_cache.price = last.quote
          /\ clock - price_origin.memory <= STALE_CACHE_MAX_AGE

C38_WalletRowHasDeposit ==
    [][\A u \in Users :
          InvoiceStepOf(u)
          => /\ \A o \in OrderIds :
                   (solana_wallets[o].status = "none"
                      /\ solana_wallets'[o].status # "none")
                   => pending_deposits'[o].present
             /\ last'.finalize # "none"
                   => solana_wallets' = solana_wallets]_vars

\* C39: two select_basket_crypto callbacks of one user processed concurrently
\* for the same stored basket snapshot create at most one wallet and at most
\* one pending deposit for it.
C39_OneInvoicePerSnapshot ==
    /\ Cardinality({o \in DOMAIN solana_wallets :
                      solana_wallets[o].status # "none"}) <= 1
    /\ Cardinality({o \in DOMAIN pending_deposits :
                      pending_deposits[o].present}) <= 1

====
